---- MODULE Spec2Model ----
(***************************************************************************)
(* A model of the transfer scheduler of sftp-gui                            *)
(* (src/main/transfers/transfer-manager.ts) and of the parts of            *)
(* SftpSession and TransferItem it drives.                                  *)
(*                                                                         *)
(* JavaScript runs every handler to its next `await` without interleaving; *)
(* an action of this model is one such run: the synchronous code of a      *)
(* handler from where it starts (or resumes) to where it suspends or ends, *)
(* every call it makes on the way included.                                *)
(***************************************************************************)
EXTENDS Naturals, Sequences, FiniteSets, TLC

(* ------------------------------ bounds -------------------------------- *)

\* Transfers accepted in one run (enqueueDownload, enqueueUpload, retryFailed).
MaxTransfers == 2
\* Files of a directory that is decomposed.
MaxFiles == 2
\* Largest limit the constructor and setMaxConcurrent are given (the settings
\* allow 1..10).
MaxLimit == 2
\* cancel(id) calls in one run.
MaxCancels == 1
\* Directions among the transfers of one run: at 1 a run only downloads or only
\* uploads; at 2 downloads and uploads mix.
MaxDirections == 1
\* Largest size of a file, in bytes, where sizes are explored.
MaxSize == 2
\* connect calls on one SftpSession object that spawn a process.
MaxConnects == 2
\* Commands one SftpSession object accepts (execute calls that do not throw).
MaxCommands == 2
\* Characters a process prints while one command is in flight, where the text
\* of the output is explored.
MaxOutput == 4
\* Characters of a path, where the text of a path is explored.
MaxPath == 3
\* SPEED_WINDOW_MS, in ticks of the clock of the model (a tick is 15 s)
SpeedWindow == 2
\* the progress updates of one item that record a sample
MaxSamples == 5
\* the latest reading of the clock
MaxClock == 6
\* the names an entry of a remote directory may have (of EntryNames)
MaxEntries == 2

(* --------------------------- paths and names --------------------------- *)

\* A path is the sequence of its segments; join(a, b) appends a segment.
LocalRoot == <<"local">>
RemoteRoot == <<"remote">>
TransferName == "a"
FileNames == <<"f1", "f2", "f3">>
CleanupModes == {"remove-partial", "remove-all"}

join(dir, name) == Append(dir, name)

\* `${originalMeta.item.filename} (retry)`
RetryName(name) == name \o " (retry)"

\* The identity of an SftpSession object is an arbitrary token. The model names
\* an object by what holds it: the FileWork it was acquired for, the directory
\* upload that borrowed it, or its place in the idle pool (the pool is pushed
\* and popped at its end only). When an object changes hands, every reference
\* to it is renamed, so that two references name the same object exactly when
\* they do in the program.
NoSession == [for |-> "none", t |-> 0, src |-> <<>>]
WorkSession(work) == [for |-> "work", t |-> work.transferId, src |-> work.sourcePath]
MkdirSession(id) == [for |-> "mkdir", t |-> id, src |-> <<>>]
PoolSession(i) == [for |-> "pool", t |-> i, src |-> <<>>]

(* ------------------------------- state --------------------------------- *)

VARIABLES
  maxConcurrent,   \* TransferManager.maxConcurrent
  destroying,      \* TransferManager.destroying
  sessionPool,     \* TransferManager.sessionPool: sequence of sessions
  activeSessions,  \* TransferManager.activeSessions: entries in insertion order
  fileQueue,       \* TransferManager.fileQueue
  transfers,       \* TransferManager.transfers: id -> TransferMeta (with its item)
  nextId,          \* ids handed out so far (uuidv4() is fresh)
  passes,          \* processNext calls suspended in `await getOrCreateSession()`
  executing,       \* executeWork calls suspended in `await session.download/upload`
  borrows,         \* enqueueUpload calls of a directory between borrow and return
  cancels,         \* cancel calls suspended in the settling delay or in a delete
  cancelCalls,     \* history: the cancel(id) calls made, each with the status id had
  sess,            \* session -> state of the SftpSession object
  errored,         \* history: sessions on which an operation of the manager rejected
  sftp,            \* one SftpSession object in full, with its processes and commands
  frame,           \* one command in flight, with the text its process prints
  esc,             \* one call of a path operation of SftpSession, with the text of its path
  samples,         \* the throughput samples of one TransferItem, with the clock
  walk             \* one rmdir call of SftpSession on a remote directory tree

mgrVars == <<maxConcurrent, destroying, sessionPool, activeSessions,
             fileQueue, transfers, nextId, passes, executing, borrows, cancels,
             cancelCalls, sess, errored>>

vars == <<maxConcurrent, destroying, sessionPool, activeSessions,
          fileQueue, transfers, nextId, passes, executing, borrows, cancels,
          cancelCalls, sess, errored, sftp, frame, esc, samples, walk>>

SeqToSet(s) == {s[i] : i \in 1..Len(s)}

\* The manager's state as one record, so that a handler's calls compose.
Mgr ==
  [maxConcurrent |-> maxConcurrent,
   destroying |-> destroying, sessionPool |-> sessionPool,
   activeSessions |-> activeSessions, fileQueue |-> fileQueue,
   transfers |-> transfers, nextId |-> nextId, passes |-> passes,
   executing |-> executing, borrows |-> borrows, cancels |-> cancels,
   cancelCalls |-> cancelCalls, sess |-> sess, errored |-> errored]

\* The SftpSession objects the manager or one of its suspended calls refers to.
Referenced(m) ==
  SeqToSet(m.sessionPool) \cup {e.session : e \in SeqToSet(m.activeSessions)}
    \cup {p.session : p \in m.passes} \cup {e.session : e \in m.executing}
    \cup {b.session : b \in m.borrows}

\* The next state is m; a session object nothing refers to any more is dropped.
Commit(m0) ==
  \E m \in {m0} :
    /\ maxConcurrent' = m.maxConcurrent
    /\ destroying' = m.destroying
    /\ sessionPool' = m.sessionPool
    /\ activeSessions' = m.activeSessions
    /\ fileQueue' = m.fileQueue
    /\ transfers' = m.transfers
    /\ nextId' = m.nextId
    /\ passes' = m.passes
    /\ executing' = m.executing
    /\ borrows' = m.borrows
    /\ cancels' = m.cancels
    /\ cancelCalls' = m.cancelCalls
    /\ sess' = [x \in DOMAIN m.sess \cap Referenced(m) |-> m.sess[x]]
    /\ errored' = m.errored \cap Referenced(m)
    /\ sftp' = sftp
    /\ frame' = frame
    /\ esc' = esc
    /\ samples' = samples
    /\ walk' = walk

(* ------------------------------ helpers -------------------------------- *)

RECURSIVE Filter(_, _)
\* Array.prototype.filter with the predicate given as the set of kept values.
Filter(s, keep) ==
  IF s = <<>> THEN <<>>
  ELSE IF Head(s) \in keep THEN <<Head(s)>> \o Filter(Tail(s), keep)
       ELSE Filter(Tail(s), keep)

\* this.fileQueue.filter(w => w.transferId !== id)
WithoutTransfer(queue, id) ==
  Filter(queue, {w \in SeqToSet(queue) : w.transferId # id})

\* SftpSession.isConnected
IsConnected(m, s) == s \in DOMAIN m.sess /\ m.sess[s] = "connected"

SetSess(m, s, st) ==
  [m EXCEPT !.sess = [x \in DOMAIN m.sess \cup {s} |-> IF x = s THEN st ELSE m.sess[x]]]

\* Every reference to the object named `old` now names it `new`.
Rename(m, old, new) ==
  LET r(x) == IF x = old THEN new ELSE x
  IN [m EXCEPT
        !.sess = [x \in {r(y) : y \in DOMAIN m.sess} |-> IF x = new THEN m.sess[old] ELSE m.sess[x]],
        !.sessionPool = [i \in 1..Len(@) |-> r(@[i])],
        !.activeSessions = [i \in 1..Len(@) |-> [@[i] EXCEPT !.session = r(@)]],
        !.passes = {[p EXCEPT !.session = r(@)] : p \in @},
        !.executing = {[e EXCEPT !.session = r(@)] : e \in @},
        !.borrows = {[b EXCEPT !.session = r(@)] : b \in @},
        !.errored = {r(x) : x \in @}]

\* SftpSession.kill(): the process is killed, connected = false.
Kill(m, s) == SetSess(m, s, "killed")

\* SftpSession.disconnect(): writes `exit` to the process if there is one.
Disconnect(m, s) ==
  IF m.sess[s] \in {"connected", "connecting"} THEN SetSess(m, s, "exit-sent") ELSE m

RECURSIVE KillAll(_, _)
\* session.kill() on the session of every entry.
KillAll(m, entries) ==
  IF entries = <<>> THEN m ELSE KillAll(Kill(m, Head(entries).session), Tail(entries))

\* this.emit(kind, meta.item.toJSON())
Emit(m, id, kind) ==
  [m EXCEPT !.transfers[id].emitted[kind] = @ + 1]

NoEvents == [queued |-> 0, started |-> 0, completed |-> 0, failed |-> 0, cancelled |-> 0]

\* new TransferItem(opts) with its TransferMeta. History kept with it: the events
\* emitted for the item, the getOrCreateSession calls made for its FileWork
\* (acquired), whether its enqueue borrowed a session for mkdir calls (borrowed),
\* how many of its transfer commands resolved and rejected, the sizes of the
\* FileWork whose command resolved (resolvedBytes) and rejected (rejectedBytes),
\* and, for a directory that was decomposed, the directories its source tree
\* holds (dirs) and the mkdir calls made for it before it was registered (made),
\* and the number of FileWork items pushed for the item so far (created).
NewItem(direction, filename, localPath, remotePath, totalFiles) ==
  [status |-> "queued", error |-> "", direction |-> direction, filename |-> filename,
   localPath |-> localPath, remotePath |-> remotePath, isFolder |-> FALSE,
   percent |-> 0, transferred |-> 0, total |-> 0, fileSizes |-> <<>>,
   completedBytes |-> 0, currentFileName |-> "", currentFileCompleted |-> FALSE,
   failedFiles |-> <<>>, totalFiles |-> totalFiles, completedFiles |-> 0,
   emitted |-> NoEvents, acquired |-> 0, borrowed |-> FALSE,
   resolved |-> 0, rejected |-> 0, resolvedBytes |-> 0, rejectedBytes |-> 0,
   decomposed |-> FALSE, dirs |-> <<>>, made |-> <<>>, created |-> 0]

RECURSIVE SumSizes(_)
\* files.reduce((sum, f) => sum + f.size, 0)
SumSizes(files) == IF files = <<>> THEN 0 ELSE Head(files).size + SumSizes(Tail(files))

\* files.map(f => ({ name: f.name, size: f.size }))
NameSizes(files) == [i \in 1..Len(files) |-> [name |-> files[i].name, size |-> files[i].size]]

\* TransferItem.setFileSizes(sizes, totalBytes)
SetFileSizes(x, sizes, totalBytes) ==
  [x EXCEPT !.fileSizes = sizes, !.total = totalBytes, !.isFolder = TRUE]

\* this.fileSizes.findIndex(f => f.name === name); 0 stands for -1.
FindIndex(sizes, name) ==
  IF \E i \in 1..Len(sizes) : sizes[i].name = name
  THEN CHOOSE i \in 1..Len(sizes) :
         sizes[i].name = name /\ \A j \in 1..(i - 1) : sizes[j].name # name
  ELSE 0

\* Faulty variant of MarkCurrentFileCompleted: the entry is counted but not consumed.
MarkCurrentFileCompleted_KeepsEntry(x) ==
  LET idx == FindIndex(x.fileSizes, x.currentFileName)
  IN IF idx # 0
     THEN [x EXCEPT !.completedBytes = @ + x.fileSizes[idx].size,
                    !.currentFileCompleted = TRUE]
     ELSE [x EXCEPT !.currentFileCompleted = TRUE]

\* TransferItem.markCurrentFileCompleted(): the first entry with the name of the
\* current file is consumed and its size added to the completed bytes.
MarkCurrentFileCompleted(x) ==
  LET idx == FindIndex(x.fileSizes, x.currentFileName)
  IN IF idx # 0
     THEN [x EXCEPT !.completedBytes = @ + x.fileSizes[idx].size,
                    !.fileSizes = SubSeq(@, 1, idx - 1) \o SubSeq(@, idx + 1, Len(@)),
                    !.currentFileCompleted = TRUE]
     ELSE [x EXCEPT !.currentFileCompleted = TRUE]

\* Math.min(Math.round((completedBytes / total) * 100), 99)
FolderPercent(completedBytes, total) ==
  LET rounded == (200 * completedBytes + total) \div (2 * total)
  IN IF rounded < 99 THEN rounded ELSE 99

\* Faulty variant of UpdateProgress: the cap of 99 is applied to a single file too.
UpdateProgress_CapsAll(x, filename, percent) ==
  IF x.isFolder /\ x.total > 0
  THEN LET x1 == IF filename # "" /\ filename # x.currentFileName
                 THEN [(IF x.currentFileName # "" /\ ~x.currentFileCompleted
                        THEN MarkCurrentFileCompleted(x) ELSE x)
                         EXCEPT !.currentFileName = filename,
                                !.currentFileCompleted = FALSE]
                 ELSE x
           x2 == IF percent = 100 /\ ~x1.currentFileCompleted
                 THEN MarkCurrentFileCompleted(x1) ELSE x1
       IN [x2 EXCEPT !.transferred = x2.completedBytes,
                     !.percent = FolderPercent(x2.completedBytes, x2.total)]
  ELSE [x EXCEPT !.percent = IF percent < 99 THEN percent ELSE 99]

\* TransferItem.updateProgress(data) with data.filename and data.percent given,
\* as in every call the program makes (speed and eta are display strings and
\* are left out).
UpdateProgress(x, filename, percent) ==
  IF x.isFolder /\ x.total > 0
  THEN LET x1 == IF filename # "" /\ filename # x.currentFileName
                 THEN [(IF x.currentFileName # "" /\ ~x.currentFileCompleted
                        THEN MarkCurrentFileCompleted(x) ELSE x)
                         EXCEPT !.currentFileName = filename,
                                !.currentFileCompleted = FALSE]
                 ELSE x
           x2 == IF percent = 100 /\ ~x1.currentFileCompleted
                 THEN MarkCurrentFileCompleted(x1) ELSE x1
       IN [x2 EXCEPT !.transferred = x2.completedBytes,
                     !.percent = FolderPercent(x2.completedBytes, x2.total)]
  ELSE [x EXCEPT !.percent = percent]


\* Faulty variant of Register: the transfer is registered without its event.
Register_Silent(m, id, meta) ==
  [m EXCEPT !.transfers =
     [x \in DOMAIN m.transfers \cup {id} |-> IF x = id THEN meta ELSE m.transfers[x]]]

\* this.transfers.set(id, meta); this.emit('queued', ...)
Register(m, id, meta) ==
  Emit([m EXCEPT !.transfers =
          [x \in DOMAIN m.transfers \cup {id} |-> IF x = id THEN meta ELSE m.transfers[x]]],
       id, "queued")

(* --------------------------- session pool ------------------------------ *)

RECURSIVE PopConnected(_, _)
\* getOrCreateSession, the reuse loop: pops the pool until a connected session.
PopConnected(m, pool) ==
  IF pool = <<>> THEN [pool |-> <<>>, session |-> NoSession]
  ELSE LET s == pool[Len(pool)]
           rest == SubSeq(pool, 1, Len(pool) - 1)
       IN IF IsConnected(m, s) THEN [pool |-> rest, session |-> s]
          ELSE PopConnected(m, rest)

\* returnSession(session)
ReturnSession(m, s) ==
  IF m.destroying THEN Disconnect(m, s)
  ELSE IF Len(m.sessionPool) + Len(m.activeSessions) >= m.maxConcurrent
       THEN Disconnect(m, s)
       ELSE LET m1 == [m EXCEPT !.sessionPool = Append(@, s)]
            IN Rename(m1, s, PoolSession(Len(m1.sessionPool)))

(* ----------------------------- processNext ----------------------------- *)

RECURSIVE Loop(_)

\* processNext after getOrCreateSession resolved: the FileWork is bound to the
\* session, executeWork starts the transfer command, and the loop goes on.
Admit(m, work, session) ==
  LET entry == [sessionId |-> work, session |-> session, work |-> work]
  IN Loop([m EXCEPT !.activeSessions = Append(@, entry),
                    !.executing = @ \cup {entry}])

\* Faulty variant of Acquire: the reused session is not taken out of the pool.
Acquire_KeepsInPool(m, work) ==
  LET got == PopConnected(m, m.sessionPool)
      m1 == [m EXCEPT !.transfers[work.transferId].acquired = @ + 1]
  IN IF got.session # NoSession
     THEN Admit(Rename(m1, got.session, WorkSession(work)), work, WorkSession(work))
     ELSE [SetSess(m1, WorkSession(work), "connecting")
             EXCEPT !.passes = @ \cup {[work |-> work, session |-> WorkSession(work)]}]

\* `await this.getOrCreateSession()` for `work`. With a connected idle session the
\* promise is already resolved and the pass resumes in the same turn of the event
\* loop, before any other handler (processNext is the last call of each of its
\* callers). Otherwise a new session starts to connect and the pass is suspended.
Acquire(m, work) ==
  LET got == PopConnected(m, m.sessionPool)
      m1 == [m EXCEPT !.sessionPool = got.pool,
                      !.transfers[work.transferId].acquired = @ + 1]
  IN IF got.session # NoSession
     THEN Admit(Rename(m1, got.session, WorkSession(work)), work, WorkSession(work))
     ELSE [SetSess(m1, WorkSession(work), "connecting")
             EXCEPT !.passes = @ \cup {[work |-> work, session |-> WorkSession(work)]}]

\* The while loop of processNext, from its condition to the next await or its end.
Loop(m) ==
  IF ~(Len(m.activeSessions) < m.maxConcurrent /\ Len(m.fileQueue) > 0) THEN m
  ELSE LET work == Head(m.fileQueue)
           m1 == [m EXCEPT !.fileQueue = Tail(@)]
           meta == m.transfers[work.transferId]
       IN IF meta.status = "cancelled" THEN Loop(m1)
          ELSE LET m2 == IF meta.status = "queued"
                         THEN Emit([m1 EXCEPT !.transfers[work.transferId].status = "active"],
                                   work.transferId, "started")
                         ELSE m1
               IN Acquire(m2, work)

\* processNext(), called: returns at once when destroying.
ProcessNext(m) == IF m.destroying THEN m ELSE Loop(m)

(* ------------------------------ enqueue -------------------------------- *)

\* The directions of the transfers accepted so far (a directory upload in its
\* mkdir calls included).
DirectionsOf(m) ==
  {m.transfers[t].direction : t \in DOMAIN m.transfers}
    \cup (IF m.borrows = {} THEN {} ELSE {"upload"})

\* A further transfer in `direction` keeps the run within its bounds.
MayEnqueue(direction) ==
  /\ nextId <= MaxTransfers
  /\ Cardinality(DirectionsOf(Mgr) \cup {direction}) <= MaxDirections

FileWork(id, sourcePath, destPath, direction, size, filename) ==
  [transferId |-> id, sourcePath |-> sourcePath, destPath |-> destPath,
   direction |-> direction, size |-> size, filename |-> filename]

\* An entry of what collectRemoteFiles / collectLocalFiles return: the path of
\* the file relative to the directory (its segments), its name and its size.
File(rel, size) == [rel |-> rel, name |-> rel[Len(rel)], size |-> size]

\* A directory of n empty files, all directly in it.
FolderFiles(n) == [i \in 1..n |-> File(<<FileNames[i]>>, 0)]

\* enqueueDownload / enqueueUpload of a single file (also the path taken when the
\* size lookup throws): one FileWork.
EnqueueFile(m, id, direction, size) ==
  LET src == IF direction = "download" THEN join(RemoteRoot, TransferName)
             ELSE join(LocalRoot, TransferName)
      dst == IF direction = "download" THEN LocalRoot ELSE RemoteRoot
      meta == [NewItem(direction, TransferName,
                       IF direction = "download" THEN dst ELSE src,
                       IF direction = "download" THEN src ELSE dst, 1)
                 EXCEPT !.total = size]
      m1 == Register(m, id, meta)
      m2 == [m1 EXCEPT !.fileQueue =
               Append(@, FileWork(id, src, dst, direction, meta.total, TransferName)),
                       !.transfers[id].created = @ + 1]
  IN ProcessNext(m2)

\* The FileWork items of a directory transfer, in the order they are pushed.
FolderWork(id, direction, files) ==
  LET srcDir == IF direction = "download" THEN join(RemoteRoot, TransferName)
                ELSE join(LocalRoot, TransferName)
      destDir == IF direction = "download" THEN join(LocalRoot, TransferName)
                 ELSE join(RemoteRoot, TransferName)
  IN [i \in 1..Len(files) |->
        FileWork(id, srcDir \o files[i].rel,
                 destDir \o SubSeq(files[i].rel, 1, Len(files[i].rel) - 1),
                 direction, files[i].size, files[i].name)]

\* Faulty variant of MakeDirs: only the root of the destination is created.
MakeDirs_RootOnly(direction, dirs) ==
  <<IF direction = "download" THEN join(LocalRoot, TransferName)
    ELSE join(RemoteRoot, TransferName)>>

\* The mkdir calls of a directory transfer, in order: the root of the
\* destination, then one per directory collectRemoteDirs / collectLocalDirs
\* returned (paths relative to the source directory). A download awaits
\* fs mkdir (recursive), an upload mkdirSession.mkdir with failures swallowed.
MakeDirs(direction, dirs) ==
  LET destDir == IF direction = "download" THEN join(LocalRoot, TransferName)
                 ELSE join(RemoteRoot, TransferName)
  IN <<destDir>> \o [i \in 1..Len(dirs) |-> destDir \o dirs[i]]

\* A directory transfer from setFileSizes on: the mkdir calls, transfers.set, the
\* FileWork pushes and processNext.
EnqueueFolder(m, id, direction, files, dirs) ==
  LET src == IF direction = "download" THEN join(RemoteRoot, TransferName)
             ELSE join(LocalRoot, TransferName)
      dst == IF direction = "download" THEN LocalRoot ELSE RemoteRoot
      item == SetFileSizes(NewItem(direction, TransferName,
                                   IF direction = "download" THEN dst ELSE src,
                                   IF direction = "download" THEN src ELSE dst, Len(files)),
                           NameSizes(files), SumSizes(files))
      meta == [item EXCEPT !.decomposed = TRUE, !.dirs = dirs,
                           !.made = MakeDirs(direction, dirs)]
      m1 == Register(m, id, meta)
      m2 == [m1 EXCEPT !.fileQueue = @ \o FolderWork(id, direction, files),
                       !.transfers[id].created = @ + Len(files)]
  IN ProcessNext(m2)

\* enqueueDownload(remotePath, localPath, filename): the lookups are awaited on
\* the main session; what follows them runs without suspension.
\* kind "folder": remotePath is a directory with `files` and the directories
\* `dirs` below it; kind "file": it is a file of the size of files[1].
EnqueueDownload(kind, files, dirs) ==
  /\ MayEnqueue("download")
  /\ LET m == [Mgr EXCEPT !.nextId = @ + 1]
     IN Commit(IF kind = "folder" THEN EnqueueFolder(m, nextId, "download", files, dirs)
               ELSE EnqueueFile(m, nextId, "download", files[1].size))

\* enqueueUpload(localPath, remotePath, filename) of a file of `size` bytes.
EnqueueUploadFile(size) ==
  /\ MayEnqueue("upload")
  /\ Commit(EnqueueFile([Mgr EXCEPT !.nextId = @ + 1], nextId, "upload", size))

(* ----------------------- admission and execution ----------------------- *)

\* session.connect resolved (the ready prompt was seen): the pass resumes.
ConnectSucceeds(p) ==
  /\ p \in passes
  /\ Commit(Admit([SetSess(Mgr, p.session, "connected") EXCEPT !.passes = @ \ {p}],
                  p.work, p.session))

\* Faulty variant of AcquireFailed: the catch returns instead of continuing the loop.
AcquireFailed_StopsPass(m, p) ==
  LET id == p.work.transferId
      m1 == [m EXCEPT !.passes = @ \ {p},
                      !.transfers[id].status = "failed",
                      !.transfers[id].error = "Session creation failed"]
      m2 == Emit(m1, id, "failed")
  IN [m2 EXCEPT !.fileQueue = WithoutTransfer(@, id)]

\* Faulty variant of AcquireFailed: the catch empties the whole queue.
AcquireFailed_PurgesAll(m, p) ==
  LET id == p.work.transferId
      m1 == [m EXCEPT !.passes = @ \ {p},
                      !.transfers[id].status = "failed",
                      !.transfers[id].error = "Session creation failed"]
      m2 == Emit(m1, id, "failed")
      m3 == [m2 EXCEPT !.fileQueue = <<>>]
  IN Loop(m3)

\* The catch of processNext: the owning transfer fails, its queued work is purged.
AcquireFailed(m, p) ==
  LET id == p.work.transferId
      m1 == [m EXCEPT !.passes = @ \ {p},
                      !.transfers[id].status = "failed",
                      !.transfers[id].error = "Session creation failed"]
      m2 == Emit(m1, id, "failed")
      m3 == [m2 EXCEPT !.fileQueue = WithoutTransfer(@, id)]
  IN Loop(m3)

\* new SftpSession() threw, or session.connect rejected (it kills its process).
ConnectFails(p) ==
  /\ p \in passes
  /\ Commit(AcquireFailed(SetSess(Mgr, p.session, "dead"), p))

InActive(m, e) == e \in SeqToSet(m.activeSessions)

\* this.activeSessions.delete(sessionId)
ActiveDelete(m, e) ==
  [m EXCEPT !.activeSessions = Filter(@, SeqToSet(@) \ {e})]

\* The finally block of executeWork.
ExecuteFinally(m, e, fileErrored) ==
  LET m1 == IF InActive(m, e)
            THEN LET d == ActiveDelete(m, e)
                 IN IF ~fileErrored /\ IsConnected(d, e.session) /\ ~d.destroying
                    THEN ReturnSession(d, e.session)
                    ELSE IF ~d.destroying THEN Disconnect(d, e.session) ELSE d
            ELSE m
  IN ProcessNext(m1)

\* executeWork after the transfer command resolved.
WorkDone(m, e) ==
  LET id == e.work.transferId
      m0 == [m EXCEPT !.executing = @ \ {e},
                      !.transfers[id].resolved = @ + 1,
                      !.transfers[id].resolvedBytes = @ + e.work.size,
                      !.transfers[id].completedFiles = @ + 1]
      m1 == [m0 EXCEPT !.transfers[id] = UpdateProgress(@, e.work.filename, 100)]
      m2 == IF m1.transfers[id].completedFiles >= m1.transfers[id].totalFiles
            THEN Emit([m1 EXCEPT !.transfers[id].status = "completed",
                                 !.transfers[id].percent = 100], id, "completed")
            ELSE m1
  IN ExecuteFinally(m2, e, FALSE)

\* Faulty variant of RecordFileFailure: a folder with any failed file ends failed.
RecordFileFailure_AnyFailureFails(m, e) ==
  LET id == e.work.transferId
      m0 == [m EXCEPT !.transfers[id].failedFiles =
                         Append(@, [name |-> e.work.filename, sourcePath |-> e.work.sourcePath,
                                    destPath |-> e.work.destPath]),
                      !.transfers[id].completedFiles = @ + 1]
      m1 == [m0 EXCEPT !.transfers[id] = UpdateProgress(@, e.work.filename, 100)]
      meta == m1.transfers[id]
  IN IF meta.completedFiles >= meta.totalFiles
     THEN Emit([m1 EXCEPT !.transfers[id].status = "failed",
                          !.transfers[id].error = "All files failed"], id, "failed")
     ELSE m1

\* Faulty variant of RecordFileFailure: a failed file is not counted as done.
RecordFileFailure_NotCounted(m, e) ==
  LET id == e.work.transferId
      m0 == [m EXCEPT !.transfers[id].failedFiles =
                         Append(@, [name |-> e.work.filename, sourcePath |-> e.work.sourcePath,
                                    destPath |-> e.work.destPath])]
      m1 == [m0 EXCEPT !.transfers[id] = UpdateProgress(@, e.work.filename, 100)]
      meta == m1.transfers[id]
  IN IF meta.completedFiles >= meta.totalFiles
     THEN IF Len(meta.failedFiles) >= meta.totalFiles
          THEN Emit([m1 EXCEPT !.transfers[id].status = "failed",
                               !.transfers[id].error = "All files failed"], id, "failed")
          ELSE Emit([m1 EXCEPT !.transfers[id].status = "completed",
                               !.transfers[id].percent = 100], id, "completed")
     ELSE m1

\* The folder branch of the catch of executeWork: the failure is recorded per file.
RecordFileFailure(m, e) ==
  LET id == e.work.transferId
      m0 == [m EXCEPT !.transfers[id].failedFiles =
                         Append(@, [name |-> e.work.filename, sourcePath |-> e.work.sourcePath,
                                    destPath |-> e.work.destPath]),
                      !.transfers[id].completedFiles = @ + 1]
      m1 == [m0 EXCEPT !.transfers[id] = UpdateProgress(@, e.work.filename, 100)]
      meta == m1.transfers[id]
  IN IF meta.completedFiles >= meta.totalFiles
     THEN IF Len(meta.failedFiles) >= meta.totalFiles
          THEN Emit([m1 EXCEPT !.transfers[id].status = "failed",
                               !.transfers[id].error = "All files failed"], id, "failed")
          ELSE Emit([m1 EXCEPT !.transfers[id].status = "completed",
                               !.transfers[id].percent = 100], id, "completed")
     ELSE m1

\* Faulty variant of WorkFailed: the FileWork that failed is queued again.
WorkFailed_Requeues(m, e) ==
  LET id == e.work.transferId
      m0 == [m EXCEPT !.executing = @ \ {e}, !.errored = @ \cup {e.session},
                      !.transfers[id].rejected = @ + 1,
                      !.transfers[id].rejectedBytes = @ + e.work.size,
                      !.fileQueue = Append(@, e.work)]
  IN IF ~InActive(m0, e) THEN ExecuteFinally(m0, e, FALSE)
     ELSE IF m0.transfers[id].status # "cancelled"
          THEN IF m0.transfers[id].totalFiles > 1
               THEN ExecuteFinally(RecordFileFailure(m0, e), e, TRUE)
               ELSE ExecuteFinally(
                      Emit([m0 EXCEPT !.transfers[id].status = "failed",
                                      !.transfers[id].error = "Transfer failed"], id, "failed"),
                      e, TRUE)
          ELSE ExecuteFinally(m0, e, FALSE)

\* executeWork after the transfer command rejected: the catch, then the finally.
WorkFailed(m, e) ==
  LET id == e.work.transferId
      m0 == [m EXCEPT !.executing = @ \ {e}, !.errored = @ \cup {e.session},
                      !.transfers[id].rejected = @ + 1,
                      !.transfers[id].rejectedBytes = @ + e.work.size]
  IN IF ~InActive(m0, e) THEN ExecuteFinally(m0, e, FALSE)
     ELSE IF m0.transfers[id].status # "cancelled"
          THEN IF m0.transfers[id].totalFiles > 1
               THEN ExecuteFinally(RecordFileFailure(m0, e), e, TRUE)
               ELSE ExecuteFinally(
                      Emit([m0 EXCEPT !.transfers[id].status = "failed",
                                      !.transfers[id].error = "Transfer failed"], id, "failed"),
                      e, TRUE)
          ELSE ExecuteFinally(m0, e, FALSE)

\* The sentinel of the get/put command is seen: session.download/upload resolves.
WorkSucceeds(e) ==
  /\ e \in executing
  /\ IsConnected(Mgr, e.session)
  /\ Commit(WorkDone(Mgr, e))

\* The process of the session exits (on its own, or after kill()): the command is
\* rejected with 'Connection closed' and the session is no longer connected.
WorkFailsByExit(e) ==
  /\ e \in executing
  /\ Commit(WorkFailed(IF sess[e.session] = "killed" THEN Mgr
                       ELSE SetSess(Mgr, e.session, "dead"), e))

\* escapePath throws on a path with a control character: the command is rejected
\* and the session stays connected.
WorkFailsByPath(e) ==
  /\ e \in executing
  /\ IsConnected(Mgr, e.session)
  /\ InActive(Mgr, e)
  /\ Commit(WorkFailed(Mgr, e))

(* ------------------------- directory upload ---------------------------- *)

\* enqueueUpload of a directory, to `await this.getOrCreateSession()`: a session
\* is borrowed for the mkdir calls (taken from the pool, or newly connected).
UploadFolderBegin(files, dirs) ==
  /\ MayEnqueue("upload")
  /\ LET got == PopConnected(Mgr, sessionPool)
         m1 == [Mgr EXCEPT !.nextId = @ + 1, !.sessionPool = got.pool]
     IN Commit(IF got.session # NoSession
               THEN Rename([m1 EXCEPT !.borrows = @ \cup {[id |-> nextId, files |-> files, dirs |-> dirs,
                                        session |-> got.session]}],
                           got.session, MkdirSession(nextId))
               ELSE [SetSess(m1, MkdirSession(nextId), "connecting")
                       EXCEPT !.borrows = @ \cup {[id |-> nextId, files |-> files, dirs |-> dirs,
                                 session |-> MkdirSession(nextId)]}])

\* The connect of the borrowed session rejected: the outer catch of enqueueUpload
\* goes on "as single file", after setFileSizes has made the item a folder.
UploadAsSingleFile(m, b) ==
  LET src == join(LocalRoot, TransferName)
      meta == SetFileSizes(NewItem("upload", TransferName, src, RemoteRoot, 1),
                           NameSizes(b.files), SumSizes(b.files))
      m1 == Register([m EXCEPT !.borrows = @ \ {b}], b.id, meta)
      m2 == [m1 EXCEPT !.fileQueue =
                         Append(@, FileWork(b.id, src, RemoteRoot, "upload", meta.total, TransferName)),
                       !.transfers[b.id].borrowed = TRUE,
                       !.transfers[b.id].created = @ + 1]
  IN ProcessNext(m2)

BorrowConnectFails(b) ==
  /\ b \in borrows
  /\ sess[b.session] = "connecting"
  /\ Commit(UploadAsSingleFile(SetSess(Mgr, b.session, "dead"), b))

\* enqueueUpload after the mkdir calls: the borrowed session is returned, the
\* transfer is registered and decomposed. A rejected mkdir is swallowed.
UploadFolderRegister(m, b) ==
  [EnqueueFolder(ReturnSession([m EXCEPT !.borrows = @ \ {b}], b.session), b.id, "upload", b.files, b.dirs)
     EXCEPT !.transfers[b.id].borrowed = TRUE]

\* The mkdir calls on the borrowed session are over (after its connect resolved,
\* if it was new: between that and the mkdir calls enqueueUpload touches nothing
\* of the manager). outcome: "ok" (every mkdir resolved), "exit" (the process of
\* the session exited during a mkdir, which rejects it and those after it),
\* "path" (escapePath threw).
UploadFolderFinish(b, outcome) ==
  /\ b \in borrows
  /\ LET m0 == SetSess(Mgr, b.session, "connected")
         m == CASE outcome = "ok" -> m0
                [] outcome = "exit" -> [SetSess(m0, b.session, "dead") EXCEPT !.errored = @ \cup {b.session}]
                [] outcome = "path" -> [m0 EXCEPT !.errored = @ \cup {b.session}]
     IN Commit(UploadFolderRegister(m, b))

(* ------------------------------- retry --------------------------------- *)

\* Faulty variant of RetryEnqueue: the new item counts the files of the original.
RetryEnqueue_OriginalCount(m, originalId) ==
  LET orig == m.transfers[originalId]
      failed == orig.failedFiles
      id == m.nextId
      item == NewItem(orig.direction, RetryName(orig.filename), orig.localPath,
                      orig.remotePath, orig.totalFiles)
      meta == IF Len(failed) > 1
              THEN SetFileSizes(item, [i \in 1..Len(failed) |-> [name |-> failed[i].name, size |-> 0]], 0)
              ELSE item
      m1 == Register([m EXCEPT !.nextId = @ + 1], id, meta)
  IN [m1 EXCEPT !.fileQueue = @ \o
        [i \in 1..Len(failed) |->
           FileWork(id, failed[i].sourcePath, failed[i].destPath,
                    orig.direction, 0, failed[i].name)],
                !.transfers[id].created = @ + Len(failed)]

\* retryFailed(originalId) with failed files, to its call of processNext: the new
\* item is registered and one FileWork is pushed per failed file.
RetryEnqueue(m, originalId) ==
  LET orig == m.transfers[originalId]
      failed == orig.failedFiles
      id == m.nextId
      item == NewItem(orig.direction, RetryName(orig.filename), orig.localPath,
                      orig.remotePath, Len(failed))
      meta == IF Len(failed) > 1
              THEN SetFileSizes(item, [i \in 1..Len(failed) |-> [name |-> failed[i].name, size |-> 0]], 0)
              ELSE item
      m1 == Register([m EXCEPT !.nextId = @ + 1], id, meta)
  IN [m1 EXCEPT !.fileQueue = @ \o
        [i \in 1..Len(failed) |->
           FileWork(id, failed[i].sourcePath, failed[i].destPath,
                    orig.direction, 0, failed[i].name)],
                !.transfers[id].created = @ + Len(failed)]

\* retryFailed(originalId) as a whole; without failed files it returns null.
RetryCall(m, originalId) ==
  IF originalId \notin DOMAIN m.transfers \/ Len(m.transfers[originalId].failedFiles) = 0
  THEN m
  ELSE ProcessNext(RetryEnqueue(m, originalId))

\* retryFailed(originalId), called for a transfer that has failed files.
RetryFailed(originalId) ==
  /\ ~destroying
  /\ originalId \in DOMAIN transfers
  /\ Len(transfers[originalId].failedFiles) > 0
  /\ nextId <= MaxTransfers
  /\ Commit(RetryCall(Mgr, originalId))

(* ------------------------------- cancel -------------------------------- *)

\* What cancel deletes is decided by this.cancelCleanup and, for a remote
\* target, by this.mainSession.isConnected, as they are when the cleanup reads
\* them. setCancelCleanup(mode) only assigns the field and may be called at any
\* time; nothing else reads either. Both are therefore inputs of the step that
\* reads them (mode, mainOk), and the values read are kept in the record of the
\* cancel call.
\*
\* The owner of the manager (ipc-handlers.ts) calls destroy() in the handler of
\* the main session's 'disconnected' event and in its own disconnect handler, and
\* drops its reference to the manager there. So the main session is connected
\* until destroy() is called, and cancel, retryFailed and setMaxConcurrent, which
\* run from their call without suspension, are not called after it. What was
\* suspended when destroy() was called (an enqueue in its lookups, a scheduling
\* pass, a transfer, a cancel) still resumes after it.

\* The record of a cancel call in progress is identified by the number of the call.
DropCancel(m, c) == [m EXCEPT !.cancels = {x \in @ : x.call # c.call}]

ReplaceCancel(m, c, d) == [DropCancel(m, c) EXCEPT !.cancels = @ \cup {d}]

\* meta.item.status = 'cancelled'; this.emit('cancelled', ...)
CancelMark(m, id) ==
  Emit([m EXCEPT !.transfers[id].status = "cancelled"], id, "cancelled")

\* The end of cancel: the item is marked cancelled whatever the cleanup did, and
\* a scheduling pass is started.
CancelFinish(m, c) ==
  ProcessNext(DropCancel(CancelMark(m, c.id), c))

\* deleteWithRetry(fn), to its first `await fn()`: the delete is issued.
IssueDelete(m, c, op) ==
  ReplaceCancel(m, c, [c EXCEPT !.phase = "deleting", !.issued = @ \cup {op}, !.tries = 1])

\* join(work.destPath, work.filename)
DestFile(work) == join(work.destPath, work.filename)

RECURSIVE CleanupPartialFiles(_, _, _, _)
\* cleanupPartialFiles(inFlightWork), from the work items in `rest` on, to the
\* next awaited delete; an upload is skipped while the main session is down.
CleanupPartialFiles(m, c, rest, mainOk) ==
  IF rest = <<>> THEN CancelFinish(m, c)
  ELSE LET work == Head(rest)
       IN IF work.direction = "download"
          THEN IssueDelete(m, [c EXCEPT !.rest = Tail(rest)], [op |-> "local", target |-> DestFile(work)])
          ELSE IF ~mainOk
               THEN CleanupPartialFiles(m, [c EXCEPT !.skipped = TRUE], Tail(rest), mainOk)
               ELSE IssueDelete(m, [c EXCEPT !.rest = Tail(rest)], [op |-> "rm", target |-> DestFile(work)])

\* cleanupTransfer(item), to its awaited delete.
CleanupTransfer(m, c, mainOk) ==
  LET item == m.transfers[c.id]
  IN IF item.direction = "download"
     THEN IssueDelete(m, c, [op |-> "local", target |-> join(item.localPath, item.filename)])
     ELSE IF ~mainOk THEN CancelFinish(m, [c EXCEPT !.skipped = TRUE])
          ELSE IssueDelete(m, c, [op |-> IF item.isFolder THEN "rmdir" ELSE "rm",
                                  target |-> join(item.remotePath, item.filename)])

\* cancel, from "Clean up based on cancel cleanup mode" to the next await.
\* (this.cancelCleanup is read for a folder item only.)
Cleanup(m, c0, mode, mainOk) ==
  IF ~m.transfers[c0.id].isFolder THEN CleanupTransfer(m, c0, mainOk)
  ELSE LET c == [c0 EXCEPT !.mode = mode]
       IN IF mode = "remove-all" THEN CleanupTransfer(m, c, mainOk)
          ELSE CleanupPartialFiles(m, c, c.inFlight, mainOk)

\* The sessions whose current FileWork belongs to transfer id, with that work.
InFlightOf(m, id) == Filter(m.activeSessions, {e \in SeqToSet(m.activeSessions) : e.work.transferId = id})

\* Faulty variant of CancelKill: the queued work of id is left in the queue.
CancelKill_KeepsQueue(m, id) ==
  LET hit == InFlightOf(m, id)
      m1 == [m EXCEPT !.activeSessions = Filter(@, SeqToSet(@) \ SeqToSet(hit))]
  IN KillAll(m1, hit)

\* Faulty variant of CancelKill: every active session is killed, whatever its transfer.
CancelKill_AllSessions(m, id) ==
  LET m1 == [m EXCEPT !.fileQueue = WithoutTransfer(@, id),
                      !.activeSessions = <<>>]
  IN KillAll(m1, m.activeSessions)

\* cancel(id), its first part: the queued work of id is dropped, the sessions
\* working for id are taken out of the active map and killed.
CancelKill(m, id) ==
  LET hit == InFlightOf(m, id)
      m1 == [m EXCEPT !.fileQueue = WithoutTransfer(@, id),
                      !.activeSessions = Filter(@, SeqToSet(@) \ SeqToSet(hit))]
  IN KillAll(m1, hit)

\* cancel(id) of a known transfer, to its first await: the settling delay when a
\* session was killed, else the first delete (or the end, if there is none).
Cancel(id, mode, mainOk) ==
  /\ id \in DOMAIN transfers
  /\ ~destroying
  /\ Len(cancelCalls) < MaxCancels
  /\ LET hit == InFlightOf(Mgr, id)
         c == [id |-> id, call |-> Len(cancelCalls) + 1,
               inFlight |-> [i \in 1..Len(hit) |-> hit[i].work],
               phase |-> "settling", mode |-> "unread", skipped |-> FALSE,
               rest |-> <<>>, issued |-> {}, tries |-> 0]
         m1 == [CancelKill(Mgr, id) EXCEPT
                  !.cancelCalls = Append(@, [id |-> id, status |-> transfers[id].status,
                                             abandoned |-> 0]),
                  !.cancels = @ \cup {c}]
     IN IF Len(hit) > 0
        THEN mode = "remove-partial" /\ mainOk /\ Commit(m1)
        ELSE mainOk /\ Commit(Cleanup(m1, c, mode, mainOk))

\* The 500 ms settling delay after the kills is over.
CancelSettled(c, mode, mainOk) ==
  /\ c \in cancels
  /\ c.phase = "settling"
  /\ destroying \/ mainOk
  /\ Commit(Cleanup(Mgr, c, mode, mainOk))

\* deleteWithRetry returns: the delete succeeded, or it failed and, 300 ms later,
\* its one retry succeeded or failed. Nothing of the manager is read or written
\* in between and a failure is swallowed, so the outcome is not an input here.
\* The cleanup goes on to its next delete, or cancel ends.
DeleteSettles(c, mainOk) ==
  /\ c \in cancels
  /\ c.phase = "deleting"
  /\ destroying \/ mainOk
  /\ Commit(CleanupPartialFiles(Mgr, c, c.rest, mainOk))

\* deleteWithRetry: the first `await fn()` rejected; the 300 ms wait begins.
DeleteRejected(c) ==
  /\ c \in cancels
  /\ c.phase = "deleting" /\ c.tries = 1
  /\ Commit(ReplaceCancel(Mgr, c, [c EXCEPT !.phase = "waiting"]))

\* deleteWithRetry: the wait is over and fn is called a second time.
DeleteRetried(c) ==
  /\ c \in cancels
  /\ c.phase = "waiting"
  /\ Commit(ReplaceCancel(Mgr, c, [c EXCEPT !.phase = "deleting", !.tries = 2]))

\* Faulty variant of DeleteFailedTwice: the second failure is thrown on, and cancel rejects.
DeleteFailedTwice_Rethrows(m, c, mainOk) ==
  DropCancel([m EXCEPT !.cancelCalls[c.call].abandoned = @ + 1], c)

\* deleteWithRetry: the second `await fn()` rejected too; the inner catch
\* swallows it (the history of the call counts the delete as given up) and the
\* cleanup goes on to its next delete, or cancel ends.
DeleteFailedTwice(m, c, mainOk) ==
  CleanupPartialFiles([m EXCEPT !.cancelCalls[c.call].abandoned = @ + 1], c, c.rest, mainOk)

DeleteAbandoned(c, mainOk) ==
  /\ c \in cancels
  /\ c.phase = "deleting" /\ c.tries = 2
  /\ destroying \/ mainOk
  /\ Commit(DeleteFailedTwice(Mgr, c, mainOk))

(* -------------------------- capacity, teardown ------------------------- *)

RECURSIVE TrimIdle(_, _)
\* The while loop of setMaxConcurrent: excess idle sessions are disconnected.
TrimIdle(m, n) ==
  IF Len(m.sessionPool) > 0 /\ Len(m.sessionPool) + Len(m.activeSessions) > n
  THEN LET s == m.sessionPool[Len(m.sessionPool)]
       IN TrimIdle(Disconnect([m EXCEPT !.sessionPool = SubSeq(@, 1, Len(@) - 1)], s), n)
  ELSE m

\* setMaxConcurrent(n)
SetMaxConcurrent(n) ==
  /\ ~destroying
  /\ n # maxConcurrent
  /\ Commit(ProcessNext(TrimIdle([Mgr EXCEPT !.maxConcurrent = n], n)))

RECURSIVE DisconnectAll(_, _)
DisconnectAll(m, pool) ==
  IF pool = <<>> THEN m ELSE DisconnectAll(Disconnect(m, Head(pool)), Tail(pool))

\* destroy()
DestroyManager(m) ==
  LET m1 == [m EXCEPT !.destroying = TRUE, !.fileQueue = <<>>]
      m2 == [KillAll(m1, m1.activeSessions) EXCEPT !.activeSessions = <<>>]
  IN [DisconnectAll(m2, m2.sessionPool) EXCEPT !.sessionPool = <<>>]

Destroy ==
  /\ ~destroying
  /\ Commit(DestroyManager(Mgr))

(* ---------------------------- environment ------------------------------ *)

\* The process of an idle pooled session exits (the server closed the connection).
IdleSessionExits(s) ==
  /\ s \in SeqToSet(sessionPool)
  /\ sess[s] = "connected"
  /\ Commit(SetSess(Mgr, s, "dead"))

(* ------------------------------ progress ------------------------------- *)

\* The percentages of the progress lines a transfer command prints
\* (parseTransferProgress reads `(\d+)%`).
SamplePercents == {50, 100}

\* The session at work for e emits 'transfer-progress': the progressHandler of
\* executeWork routes the sample to the item under the name of the FileWork.
ProgressSample(e, percent) ==
  /\ e \in executing
  /\ IsConnected(Mgr, e.session)
  /\ Commit([Mgr EXCEPT !.transfers[e.work.transferId] =
                          UpdateProgress(@, e.work.filename, percent)])

\* The relative paths of the files a directory may hold: two files of one name
\* in different directories among them.
RelPaths == <<(<<"f1">>), (<<"sub", "f1">>), (<<"f2">>)>>

RelIndex(rel) == CHOOSE k \in 1..Len(RelPaths) : RelPaths[k] = rel

\* The listings of a directory of 1..MaxFiles files of 0..MaxSize bytes each.
Listings ==
  LET choices == {File(RelPaths[k], z) : k \in 1..Len(RelPaths), z \in 0..MaxSize}
  IN {l \in UNION {[1..n -> choices] : n \in 1..MaxFiles} :
        \A i, j \in 1..Len(l) : i < j => RelIndex(l[i].rel) < RelIndex(l[j].rel)}

\* The directories a source tree may hold below its root, in the order
\* collectRemoteDirs / collectLocalDirs return them: one without files among them.
TreeDirs == <<(<<"empty">>), (<<"sub">>)>>

\* The directory listings that go with a listing of files: every directory a
\* file lies in, with or without the directory that holds no file.
DirListings(files) ==
  {SelectSeq(TreeDirs, LAMBDA d : d \in chosen) :
     chosen \in {c \in SUBSET SeqToSet(TreeDirs) :
                   \A i \in 1..Len(files) :
                     Len(files[i].rel) > 1 =>
                       SubSeq(files[i].rel, 1, Len(files[i].rel) - 1) \in c}}

(* ------------------------------ SftpSession ---------------------------- *)

\* One SftpSession object in full. A process it spawned is named by its number;
\* ptyProcess is that number, 0 for null. The record of a process holds what
\* belongs to the connect call that spawned it: its promise, its `settled` flag
\* and whether its timeout is armed; the listeners attached to its onData; and,
\* as history, whether a host-key prompt surfaced while it ran and its connect
\* was pending awaits the caller's answer.
\* A command is named by the number of the execute call that accepted it; the
\* record of a command holds the state of its promise and, as history, how often
\* resolve or reject was called on it and the process execute accepted it for. `written` is the history of the commands
\* written to a process, `sinceExit` whether an exit event was handled and
\* connect was not called since.

\* What the detectors find in this.buffer: the text of a host-key prompt, of an
\* auth prompt, of a connection error, and the ready prompt at its end.
NoBuffer == [hostKey |-> FALSE, auth |-> FALSE, error |-> FALSE, prompt |-> FALSE]

\* The chunks a process prints, by what the detectors find in them; "sentinel"
\* ends with the output line of the sentinel of the command in flight.
Chunks == {"hostkey", "auth", "error", "prompt", "sentinel", "other"}

\* this.buffer += clean
Accumulate(buffer, chunk) ==
  [hostKey |-> buffer.hostKey \/ chunk = "hostkey",
   auth |-> buffer.auth \/ chunk = "auth",
   error |-> buffer.error \/ chunk = "error",
   prompt |-> chunk = "prompt"]

\* new SftpSession()
NewSession ==
  [connected |-> FALSE, connecting |-> FALSE, ptyProcess |-> 0, buffer |-> NoBuffer,
   commandQueue |-> <<>>, currentCommand |-> 0,
   procs |-> <<>>, cmds |-> <<>>, written |-> <<>>, sinceExit |-> FALSE]

\* SftpSession.kill()
SftpKill(s) ==
  [(IF s.ptyProcess # 0
    THEN [s EXCEPT !.procs[s.ptyProcess].status = "killed", !.ptyProcess = 0]
    ELSE s)
     EXCEPT !.connected = FALSE, !.connecting = FALSE]

\* resolve() / reject(...) of the promise of the connect call that spawned p.
SettleConnect(s, p, how) ==
  [s EXCEPT !.procs[p].promise = IF @ = "pending" THEN how ELSE @]

\* cmd.resolve(...) / cmd.reject(...)
SettleCommand(s, c, how) ==
  [s EXCEPT !.cmds[c].status = IF @ = "pending" THEN how ELSE @,
            !.cmds[c].settles = @ + 1]

\* connect(config) with a config that passes validation; pty.spawn succeeds or
\* throws. Called while connected or connecting it throws at once.
SftpConnect(s, spawnOk) ==
  IF s.connected \/ s.connecting THEN s
  ELSE IF ~spawnOk THEN [s EXCEPT !.buffer = NoBuffer, !.sinceExit = FALSE]
  ELSE [s EXCEPT !.connecting = TRUE, !.buffer = NoBuffer,
                 !.ptyProcess = Len(s.procs) + 1,
                 !.procs = Append(@, [status |-> "running", listeners |-> {"connect"},
                                      promise |-> "pending", settled |-> FALSE,
                                      timer |-> TRUE, waiting |-> FALSE]),
                 !.sinceExit = FALSE]

\* The callback of connectTimeout of the connect call that spawned p.
SftpConnectTimeout(s, p) ==
  SettleConnect([SftpKill([s EXCEPT !.connecting = FALSE]) EXCEPT !.procs[p].timer = FALSE],
                p, "rejected")

\* The onData listener connect attached to process p.
SftpOnConnectData(s, p, chunk) ==
  LET s1 == [s EXCEPT !.buffer = Accumulate(@, chunk)]
  IN IF s1.buffer.hostKey
     THEN [s1 EXCEPT !.procs[p].waiting =
                       @ \/ (s1.procs[p].promise = "pending" /\ s1.procs[p].status = "running")]
     ELSE IF s1.buffer.auth \/ s1.buffer.error
          THEN IF s1.procs[p].settled THEN s1
               ELSE SettleConnect(
                      SftpKill([s1 EXCEPT !.procs[p].settled = TRUE, !.procs[p].timer = FALSE,
                                          !.connecting = FALSE]),
                      p, "rejected")
     ELSE IF s1.buffer.prompt
          THEN IF s1.procs[p].settled THEN s1
               ELSE LET s2 == [s1 EXCEPT !.procs[p].settled = TRUE, !.procs[p].timer = FALSE,
                                         !.connecting = FALSE, !.connected = TRUE,
                                         !.buffer = NoBuffer,
                                         !.procs[p].listeners = @ \ {"connect"}]
                        s3 == SettleConnect(s2, p, "resolved")
                    IN IF s3.ptyProcess = 0 THEN s3
                       ELSE [s3 EXCEPT !.procs[s3.ptyProcess].listeners = @ \cup {"handle"}]
     ELSE s1

\* respondToHostKey(accept)
SftpRespondToHostKey(s, accept) ==
  LET s1 == [s EXCEPT !.procs = [q \in DOMAIN @ |-> [@[q] EXCEPT !.waiting = FALSE]]]
  IN IF s.ptyProcess = 0 THEN s1
     ELSE [(IF accept THEN s1 ELSE SftpKill(s1)) EXCEPT !.buffer = NoBuffer]

\* Faulty variant of SftpProcessQueue: the next command does not wait for the one in flight.
SftpProcessQueue_NoWait(s) ==
  IF s.commandQueue = <<>> THEN s
  ELSE IF s.ptyProcess = 0 THEN s
  ELSE [s EXCEPT !.currentCommand = Head(s.commandQueue), !.commandQueue = Tail(@),
                 !.buffer = NoBuffer,
                 !.written = Append(@, [cmd |-> Head(s.commandQueue), proc |-> s.ptyProcess,
                                        afterExit |-> s.sinceExit])]

\* processQueue()
SftpProcessQueue(s) ==
  IF s.currentCommand # 0 \/ s.commandQueue = <<>> THEN s
  ELSE IF s.ptyProcess = 0 THEN s
  ELSE [s EXCEPT !.currentCommand = Head(s.commandQueue), !.commandQueue = Tail(@),
                 !.buffer = NoBuffer,
                 !.written = Append(@, [cmd |-> Head(s.commandQueue), proc |-> s.ptyProcess,
                                        afterExit |-> s.sinceExit])]

\* execute(command); it throws 'Not connected' without a connection or process.
SftpExecute(s) ==
  IF ~s.connected \/ s.ptyProcess = 0 THEN s
  ELSE SftpProcessQueue([s EXCEPT !.cmds = Append(@, [status |-> "pending", settles |-> 0,
                                                      proc |-> s.ptyProcess]),
                                  !.commandQueue = Append(@, Len(s.cmds) + 1)])

\* handleData(data) for a chunk that is no progress line.
SftpHandleData(s, chunk) ==
  LET s1 == [s EXCEPT !.buffer = Accumulate(@, chunk)]
      s2 == IF s1.currentCommand # 0 /\ chunk = "sentinel"
            THEN SftpProcessQueue([SettleCommand(s1, s1.currentCommand, "resolved")
                                     EXCEPT !.currentCommand = 0, !.buffer = NoBuffer])
            ELSE s1
  IN IF chunk = "error" THEN [s2 EXCEPT !.connected = FALSE] ELSE s2

RECURSIVE RejectAll(_, _)
\* for (const cmd of this.commandQueue) cmd.reject(new Error('Connection closed'))
RejectAll(s, queue) ==
  IF queue = <<>> THEN s
  ELSE RejectAll(SettleCommand(s, Head(queue), "rejected"), Tail(queue))

\* Faulty variant of SftpOnExit: the queued commands are dropped without being rejected.
SftpOnExit_DropsQueued(s, p) ==
  LET s1 == [s EXCEPT !.procs[p].status = "exited", !.procs[p].listeners = {},
                      !.procs[p].timer = FALSE, !.procs[p].waiting = FALSE,
                      !.connected = FALSE, !.connecting = FALSE, !.ptyProcess = 0,
                      !.sinceExit = TRUE]
      s2 == IF s1.currentCommand # 0
            THEN [SettleCommand(s1, s1.currentCommand, "rejected") EXCEPT !.currentCommand = 0]
            ELSE s1
  IN [s2 EXCEPT !.commandQueue = <<>>]

\* Faulty variant of SftpOnExit: the reference to the process is kept.
SftpOnExit_KeepsProcess(s, p) ==
  LET s1 == [s EXCEPT !.procs[p].status = "exited", !.procs[p].listeners = {},
                      !.procs[p].timer = FALSE, !.procs[p].waiting = FALSE,
                      !.connected = FALSE, !.connecting = FALSE, !.sinceExit = TRUE]
      s2 == IF s1.currentCommand # 0
            THEN [SettleCommand(s1, s1.currentCommand, "rejected") EXCEPT !.currentCommand = 0]
            ELSE s1
  IN [RejectAll(s2, s2.commandQueue) EXCEPT !.commandQueue = <<>>]

\* The onExit listener connect attached to process p (it clears the timeout of
\* its connect call and does not touch the promise of that call).
SftpOnExit(s, p) ==
  LET s1 == [s EXCEPT !.procs[p].status = "exited", !.procs[p].listeners = {},
                      !.procs[p].timer = FALSE, !.procs[p].waiting = FALSE,
                      !.connected = FALSE, !.connecting = FALSE, !.ptyProcess = 0,
                      !.sinceExit = TRUE]
      s2 == IF s1.currentCommand # 0
            THEN [SettleCommand(s1, s1.currentCommand, "rejected") EXCEPT !.currentCommand = 0]
            ELSE s1
  IN [RejectAll(s2, s2.commandQueue) EXCEPT !.commandQueue = <<>>]

\* A step of the session object alone.
SessionStep(s) == sftp' = s /\ UNCHANGED mgrVars /\ UNCHANGED <<frame, esc, samples, walk>>

\* connect(config) is called on the object, in whatever state it is.
Connect(spawnOk) ==
  /\ Len(sftp.procs) < MaxConnects
  /\ SessionStep(SftpConnect(sftp, spawnOk))

\* 30 s after the spawn of p the timeout fires, unless it was cleared.
ConnectTimeout(p) ==
  /\ sftp.procs[p].timer
  /\ SessionStep(SftpConnectTimeout(sftp, p))

\* Process p prints a chunk: each listener attached to it runs, the one of
\* connect first. A process that was killed may still print until its exit
\* event. The sentinel line is printed by the process the command in flight was
\* written to.
ProcessData(p, chunk) ==
  /\ sftp.procs[p].status \in {"running", "killed"}
  /\ sftp.procs[p].listeners # {}
  /\ chunk = "sentinel" =>
       /\ sftp.currentCommand # 0
       /\ sftp.written[Len(sftp.written)].proc = p
  /\ LET s1 == IF "connect" \in sftp.procs[p].listeners
               THEN SftpOnConnectData(sftp, p, chunk) ELSE sftp
         s2 == IF "handle" \in sftp.procs[p].listeners
               THEN SftpHandleData(s1, chunk) ELSE s1
     IN SessionStep(s2)

\* The exit event of process p: it exited by itself, after disconnect() wrote
\* `exit` to it, or after it was killed.
ProcessExit(p) ==
  /\ sftp.procs[p].status \in {"running", "killed"}
  /\ SessionStep(SftpOnExit(sftp, p))

\* The caller answers a host-key prompt.
RespondToHostKey(accept) ==
  /\ \E p \in DOMAIN sftp.procs : sftp.procs[p].waiting
  /\ SessionStep(SftpRespondToHostKey(sftp, accept))

\* execute(command) is called and accepts the command.
Execute ==
  /\ Len(sftp.cmds) < MaxCommands
  /\ sftp.connected /\ sftp.ptyProcess # 0
  /\ SessionStep(SftpExecute(sftp))

\* kill() is called from outside (TransferManager.cancel and destroy); the
\* caller no longer waits for an answer to a host-key prompt.
CallerKill ==
  /\ sftp.ptyProcess # 0
  /\ SessionStep([SftpKill(sftp) EXCEPT
                    !.procs = [q \in DOMAIN @ |-> [@[q] EXCEPT !.waiting = FALSE]]])

(* ------------------------------- framing ------------------------------- *)

\* The text of the output, character by character. "CR" and "LF" are the two
\* line-ending characters, "x" any other character; the sentinel of the command
\* in flight is the two characters "d" "1". None of these is part of an escape
\* code, so stripAnsi leaves a chunk as it is, and no text over them has the
\* `<n>% <size> <speed>/s <eta>` shape parseTransferProgress looks for.
OutputChars == {"d", "1", "x", "CR", "LF"}

\* this.currentCommand.sentinel
Sentinel == <<"d", "1">>

\* parseTransferProgress(line): null for every text over OutputChars.
ParseTransferProgress(line) == FALSE

RECURSIVE ReplaceCRLF(_)
\* clean.replace(/\r\n/g, '\n')
ReplaceCRLF(text) ==
  IF text = <<>> THEN <<>>
  ELSE IF Len(text) >= 2 /\ text[1] = "CR" /\ text[2] = "LF"
       THEN <<"LF">> \o ReplaceCRLF(SubSeq(text, 3, Len(text)))
       ELSE <<Head(text)>> \o ReplaceCRLF(Tail(text))

\* .replace(/\r/g, '')
RemoveCR(text) == SelectSeq(text, LAMBDA ch : ch # "CR")

\* data.includes(ch)
Includes(text, ch) == \E i \in 1..Len(text) : text[i] = ch

\* this.buffer.indexOf(marker), counted from 1; 0 stands for -1.
IndexOf(text, marker) ==
  LET hits == {i \in 1..(Len(text) - Len(marker) + 1) :
                 SubSeq(text, i, i + Len(marker) - 1) = marker}
  IN IF hits = {} THEN 0 ELSE CHOOSE i \in hits : \A j \in hits : i <= j

\* The session right after processQueue wrote a command: the buffer is empty and
\* the command is the current one. `chunks` is what its process will print, in
\* the chunks onData delivers; `stream` keeps the whole of it.
NewFrame(chunks) ==
  [chunks |-> chunks, buffer |-> <<>>, current |-> TRUE, resolves |-> 0,
   output |-> <<>>, stream |-> chunks]

\* handleData(data), to the resolution of the current command (no other command
\* is queued, and the text holds no connection error).
HandleData(f, data) ==
  IF Includes(data, "CR") /\ ~Includes(data, "LF") /\ ParseTransferProgress(data)
  THEN f
  ELSE LET f1 == [f EXCEPT !.buffer = @ \o RemoveCR(ReplaceCRLF(data))]
           markerIdx == IndexOf(f1.buffer, <<"LF">> \o Sentinel)
       IN IF f1.current /\ markerIdx # 0
          THEN [f1 EXCEPT !.output = SubSeq(f1.buffer, 1, markerIdx - 1),
                          !.buffer = SubSeq(@, markerIdx + 1 + Len(Sentinel), Len(@)),
                          !.resolves = @ + 1, !.current = FALSE]
          ELSE f1

\* The process prints its next chunk.
FrameData ==
  /\ frame.chunks # <<>>
  /\ frame' = [HandleData(frame, Head(frame.chunks)) EXCEPT !.chunks = Tail(@)]
  /\ UNCHANGED mgrVars /\ UNCHANGED <<sftp, esc, samples, walk>>

RECURSIVE Flatten(_)
\* The text a sequence of chunks makes up.
Flatten(chunks) == IF chunks = <<>> THEN <<>> ELSE Head(chunks) \o Flatten(Tail(chunks))

RECURSIVE SplitAt(_, _)
\* The text cut into chunks after each position in `cuts`.
SplitAt(text, cuts) ==
  IF cuts = {} THEN <<text>>
  ELSE LET c == CHOOSE i \in cuts : \A j \in cuts : i <= j
       IN <<SubSeq(text, 1, c)>>
            \o SplitAt(SubSeq(text, c + 1, Len(text)), {j - c : j \in cuts \ {c}})

\* What a process may print for one command: the echo of the command line the
\* terminal starts with (its first character), then every text of 1..maxLen
\* characters, the whole delivered in every division into non-empty chunks.
Deliveries(maxLen) ==
  UNION {{SplitAt(<<"x">> \o text, cuts) : cuts \in SUBSET (1..Len(text))} :
           text \in UNION {[1..n -> OutputChars] : n \in 1..maxLen}}

(* ------------------------------ escapePath ----------------------------- *)

\* The text of a path, character by character: "BS" is the backslash, "DQ" the
\* double quote, "SP" the space, "CTL" a control character (\x00-\x1f, \x7f),
\* "a" any other character.
PathChars == {"a", "SP", "BS", "DQ", "CTL"}

\* The paths of 1..MaxPath characters.
Paths == UNION {[1..n -> PathChars] : n \in 1..MaxPath}

RECURSIVE ReplaceChar(_, _, _)
\* p.replace(/<ch>/g, with)
ReplaceChar(text, ch, with) ==
  IF text = <<>> THEN <<>>
  ELSE (IF Head(text) = ch THEN with ELSE <<Head(text)>>) \o ReplaceChar(Tail(text), ch, with)

\* /[\x00-\x1f\x7f]/.test(p)
HasControl(path) == \E i \in 1..Len(path) : path[i] = "CTL"

\* Faulty variant of EscapePath: the double quotes of the path are not escaped.
EscapePath_QuotesKept(path) ==
  <<"DQ">> \o ReplaceChar(path, "BS", <<"BS", "BS">>) \o <<"DQ">>

\* escapePath(p) for a path without control character (with one it throws).
EscapePath(path) ==
  <<"DQ">> \o ReplaceChar(ReplaceChar(path, "BS", <<"BS", "BS">>), "DQ", <<"BS", "DQ">>)
    \o <<"DQ">>

\* A call of mkdir(path) on a connected session, before it runs.
NewCall(path) == [path |-> path, state |-> "called", written |-> <<>>]

\* mkdir(remotePath): the command is built, escapePath first, and handed to
\* execute, which writes it to the process; when escapePath throws nothing is
\* built or written.
SftpMkdir(c) ==
  IF HasControl(c.path) THEN [c EXCEPT !.state = "thrown"]
  ELSE [c EXCEPT !.state = "written",
                 !.written = <<"m", "k", "d", "i", "r", "SP">> \o EscapePath(c.path)]

Mkdir ==
  /\ esc.state = "called" /\ esc.path # <<>>
  /\ esc' = SftpMkdir(esc)
  /\ UNCHANGED mgrVars /\ UNCHANGED <<sftp, frame, samples, walk>>

(* ------------------------------ computeEta ----------------------------- *)

\* A TransferItem with total > 0 before its first progress update: no sample.
\* now is the last reading of Date.now(); recorded is the history of every
\* sample pushed, each numbered in the order of the pushes.
NewSamples == [now |-> 0, speedSamples |-> <<>>, recorded |-> <<>>]

\* The while loop of computeEta: the number of leading samples older than cutoff.
PruneIdx(speedSamples, cutoff) ==
  IF \A i \in 1..Len(speedSamples) : speedSamples[i].time < cutoff
  THEN Len(speedSamples)
  ELSE CHOOSE k \in 0..(Len(speedSamples) - 1) :
         /\ speedSamples[k + 1].time >= cutoff
         /\ \A j \in 1..k : speedSamples[j].time < cutoff

\* Faulty variant of ComputeEta: every sample older than the cutoff is pruned.
ComputeEta_NoAnchor(x, now) ==
  LET sample == [time |-> now, n |-> Len(x.recorded) + 1]
      pushed == Append(x.speedSamples, sample)
      pruneIdx == PruneIdx(pushed, now - SpeedWindow)
  IN [now |-> now,
      speedSamples |-> SubSeq(pushed, pruneIdx + 1, Len(pushed)),
      recorded |-> Append(x.recorded, sample)]

\* computeEta() with total > 0, to the pruning of speedSamples (what follows
\* only formats the eta string): the sample is pushed, and the samples before
\* the last one older than the cutoff are spliced off.
ComputeEta(x, now) ==
  LET sample == [time |-> now, n |-> Len(x.recorded) + 1]
      pushed == Append(x.speedSamples, sample)
      pruneIdx == PruneIdx(pushed, now - SpeedWindow)
  IN [now |-> now,
      speedSamples |-> IF pruneIdx > 1 THEN SubSeq(pushed, pruneIdx, Len(pushed)) ELSE pushed,
      recorded |-> Append(x.recorded, sample)]

\* updateProgress is called dt ticks after the previous call (Date.now() is
\* taken not to run backwards).
Sample(dt) ==
  /\ Len(samples.recorded) < MaxSamples
  /\ samples.now + dt <= MaxClock
  /\ samples' = ComputeEta(samples, samples.now + dt)
  /\ UNCHANGED mgrVars /\ UNCHANGED <<sftp, frame, esc, walk>>

(* -------------------------------- rmdir -------------------------------- *)

EntryNames == <<"a", "b", "c">>

Names == SubSeq(EntryNames, 1, MaxEntries)

\* The paths below the directory rmdir is called on (which is <<>>), two levels deep.
TreePaths ==
  {<<n>> : n \in SeqToSet(Names)} \cup {<<n, k>> : n \in SeqToSet(Names), k \in SeqToSet(Names)}

Parent(path) == SubSeq(path, 1, Len(path) - 1)

NoTree == [dirs |-> {}, files |-> {}]

\* The finite remote trees: every entry is a directory or not, and lies in a directory.
Trees ==
  LET kinds == {k \in [TreePaths -> {"none", "file", "dir"}] :
                  \A p \in TreePaths : Len(p) > 1 /\ k[p] # "none" => k[Parent(p)] = "dir"}
  IN {[dirs |-> {p \in TreePaths : k[p] = "dir"},
       files |-> {p \in TreePaths : k[p] = "file"}] : k \in kinds}

\* The rows `ls -la path` prints: '.' and '..', then one row per entry; perm is
\* the first character of the permissions column.
Rows(tree, path) ==
  LET present == SelectSeq(Names, LAMBDA n : Append(path, n) \in tree.dirs \cup tree.files)
  IN IF path = <<>> \/ path \in tree.dirs
     THEN <<[perm |-> "d", name |-> "."], [perm |-> "d", name |-> ".."]>> \o
          [i \in 1..Len(present) |->
             [perm |-> IF Append(path, present[i]) \in tree.dirs THEN "d" ELSE "-",
              name |-> present[i]]]
     ELSE <<>>

\* Faulty variant of ParseLsOutput: the '.' and '..' rows are kept.
ParseLsOutput_KeepsDots(rows) ==
  [i \in 1..Len(rows) |-> [name |-> rows[i].name, isDirectory |-> rows[i].perm = "d"]]

\* parseLsOutput(raw), on rows that match its pattern: '.' and '..' are skipped,
\* isDirectory is permissions.startsWith('d').
ParseLsOutput(rows) ==
  LET kept == SelectSeq(rows, LAMBDA r : r.name # "." /\ r.name # "..")
  IN [i \in 1..Len(kept) |-> [name |-> kept[i].name, isDirectory |-> kept[i].perm = "d"]]

\* An SftpSession and a remote tree before rmdir is called. stack holds the
\* rmdir calls in progress, the innermost last; issued is the history of the
\* commands written.
NewWalk(tree) == [tree |-> tree, stack |-> <<>>, issued |-> <<>>, state |-> "idle"]

Top(w) == w.stack[Len(w.stack)]

SetTop(w, f) == [w EXCEPT !.stack[Len(w.stack)] = f]

Issue(w, op, path) == [w EXCEPT !.issued = Append(@, [op |-> op, path |-> path])]

\* rmdir(remotePath), to its first await: listDirectory writes `ls -la`.
RmdirCall(w, path) ==
  Issue([w EXCEPT !.stack = Append(@, [path |-> path, entries |-> <<>>, phase |-> "listing"])],
        "ls", path)

\* The for loop of rmdir, from its condition to the next await: the next entry
\* is recursed into or removed; after the last, the rmdir command is written.
RmdirLoop(w) ==
  LET f == Top(w)
  IN IF f.entries = <<>>
     THEN Issue(SetTop(w, [f EXCEPT !.phase = "removing"]), "rmdir", f.path)
     ELSE LET entry == Head(f.entries)
              childPath == Append(f.path, entry.name)
          IN IF entry.isDirectory
             THEN RmdirCall(SetTop(w, [f EXCEPT !.entries = Tail(@), !.phase = "recursing"]),
                            childPath)
             ELSE Issue(SetTop(w, [f EXCEPT !.entries = Tail(@), !.phase = "rm"]),
                        "rm", childPath)

\* rmdir is called on the directory.
Rmdir ==
  /\ walk.state = "idle"
  /\ walk' = RmdirCall([walk EXCEPT !.state = "running"], <<>>)
  /\ UNCHANGED mgrVars /\ UNCHANGED <<sftp, frame, esc, samples>>

\* The `ls -la` of the innermost call resolves.
ListSettles ==
  /\ walk.stack # <<>> /\ Top(walk).phase = "listing"
  /\ walk' = RmdirLoop(SetTop(walk, [Top(walk) EXCEPT
                                       !.entries = ParseLsOutput(Rows(walk.tree, Top(walk).path))]))
  /\ UNCHANGED mgrVars /\ UNCHANGED <<sftp, frame, esc, samples>>

\* The rm of an entry resolves.
RmSettles ==
  /\ walk.stack # <<>> /\ Top(walk).phase = "rm"
  /\ walk' = RmdirLoop(walk)
  /\ UNCHANGED mgrVars /\ UNCHANGED <<sftp, frame, esc, samples>>

\* The rmdir command of the innermost call resolves: the call returns, to the
\* loop of the call that made it or to the caller of rmdir.
RmdirSettles ==
  /\ walk.stack # <<>> /\ Top(walk).phase = "removing"
  /\ LET w == [walk EXCEPT !.stack = SubSeq(@, 1, Len(@) - 1)]
     IN walk' = IF w.stack = <<>> THEN [w EXCEPT !.state = "resolved"] ELSE RmdirLoop(w)
  /\ UNCHANGED mgrVars /\ UNCHANGED <<sftp, frame, esc, samples>>

(* ---------------------------- specification ---------------------------- *)

ManagerInit ==
  /\ maxConcurrent \in 1..MaxLimit
  /\ destroying = FALSE
  /\ sessionPool = <<>>
  /\ activeSessions = <<>>
  /\ fileQueue = <<>>
  /\ transfers = <<>>
  /\ nextId = 1
  /\ passes = {}
  /\ executing = {}
  /\ borrows = {}
  /\ cancels = {}
  /\ cancelCalls = <<>>
  /\ sess = <<>>
  /\ errored = {}

Init ==
  /\ ManagerInit
  /\ sftp = NewSession
  /\ frame = NewFrame(<<>>)
  /\ esc = NewCall(<<>>)
  /\ samples = NewSamples
  /\ walk = NewWalk(NoTree)

Next ==
  \/ \E n \in 1..MaxFiles : EnqueueDownload("folder", FolderFiles(n), <<>>)
  \/ EnqueueDownload("file", FolderFiles(1), <<>>)
  \/ EnqueueUploadFile(0)
  \/ \E p \in passes : ConnectSucceeds(p)
  \/ \E p \in passes : ConnectFails(p)
  \/ \E e \in executing : WorkSucceeds(e)
  \/ \E e \in executing : WorkFailsByExit(e)
  \/ \E e \in executing : WorkFailsByPath(e)
  \/ \E n \in 1..MaxFiles : UploadFolderBegin(FolderFiles(n), <<>>)
  \/ \E b \in borrows : BorrowConnectFails(b)
  \/ \E b \in borrows, outcome \in {"ok", "exit", "path"} : UploadFolderFinish(b, outcome)
  \/ \E id \in DOMAIN transfers : RetryFailed(id)
  \/ \E n \in 1..MaxLimit : SetMaxConcurrent(n)
  \/ Destroy
  \/ \E id \in DOMAIN transfers, mode \in CleanupModes, mainOk \in BOOLEAN : Cancel(id, mode, mainOk)
  \/ \E c \in cancels, mode \in CleanupModes, mainOk \in BOOLEAN : CancelSettled(c, mode, mainOk)
  \/ \E c \in cancels, mainOk \in BOOLEAN : DeleteSettles(c, mainOk)
  \/ \E s \in DOMAIN sess : IdleSessionExits(s)

Spec == Init /\ [][Next]_vars

\* The manager with files of every size and with the progress samples of the
\* sessions at work: one transfer is enqueued and runs under a fixed limit,
\* without cancel or teardown; what is enqueued after it are its retries.
ProgressNext ==
  \/ \E files \in Listings : \E dirs \in DirListings(files) :
       nextId = 1 /\ EnqueueDownload("folder", files, dirs)
  \/ \E size \in 0..MaxSize :
       nextId = 1 /\ EnqueueDownload("file", <<File(<<TransferName>>, size)>>, <<>>)
  \/ \E size \in 0..MaxSize : nextId = 1 /\ EnqueueUploadFile(size)
  \/ \E files \in Listings : \E dirs \in DirListings(files) :
       nextId = 1 /\ UploadFolderBegin(files, dirs)
  \/ \E b \in borrows : BorrowConnectFails(b)
  \/ \E b \in borrows, outcome \in {"ok", "exit", "path"} : UploadFolderFinish(b, outcome)
  \/ \E p \in passes : ConnectSucceeds(p)
  \/ \E p \in passes : ConnectFails(p)
  \/ \E e \in executing : WorkSucceeds(e)
  \/ \E e \in executing : WorkFailsByExit(e)
  \/ \E e \in executing : WorkFailsByPath(e)
  \/ \E e \in executing, percent \in SamplePercents : ProgressSample(e, percent)
  \/ \E id \in DOMAIN transfers : RetryFailed(id)

ProgressSpec == Init /\ [][ProgressNext]_vars

\* The manager under a fixed limit, with failing transfers and with cancel calls
\* whose deletes fail: the attempts of deleteWithRetry one by one.
CancelNext ==
  \/ \E n \in 1..MaxFiles : EnqueueDownload("folder", FolderFiles(n), <<>>)
  \/ EnqueueDownload("file", FolderFiles(1), <<>>)
  \/ EnqueueUploadFile(0)
  \/ \E p \in passes : ConnectSucceeds(p)
  \/ \E p \in passes : ConnectFails(p)
  \/ \E e \in executing : WorkSucceeds(e)
  \/ \E e \in executing : WorkFailsByExit(e)
  \/ \E e \in executing : WorkFailsByPath(e)
  \/ \E id \in DOMAIN transfers, mode \in CleanupModes, mainOk \in BOOLEAN : Cancel(id, mode, mainOk)
  \/ \E c \in cancels, mode \in CleanupModes, mainOk \in BOOLEAN : CancelSettled(c, mode, mainOk)
  \/ \E c \in cancels, mainOk \in BOOLEAN : DeleteSettles(c, mainOk)
  \/ \E c \in cancels : DeleteRejected(c)
  \/ \E c \in cancels : DeleteRetried(c)
  \/ \E c \in cancels, mainOk \in BOOLEAN : DeleteAbandoned(c, mainOk)
  \/ \E id \in DOMAIN transfers : RetryFailed(id)

CancelSpec == Init /\ [][CancelNext]_vars

\* The manager without cancel and teardown, with directories of 0..MaxFiles
\* files, in which every session connect and every session command settles.
Settle ==
  \/ \E b \in borrows : BorrowConnectFails(b)
  \/ \E b \in borrows, outcome \in {"ok", "exit", "path"} : UploadFolderFinish(b, outcome)
  \/ \E p \in passes : ConnectSucceeds(p)
  \/ \E p \in passes : ConnectFails(p)
  \/ \E e \in executing : WorkSucceeds(e)
  \/ \E e \in executing : WorkFailsByExit(e)
  \/ \E e \in executing : WorkFailsByPath(e)

SettlingNext ==
  \/ \E n \in 0..MaxFiles : EnqueueDownload("folder", FolderFiles(n), <<>>)
  \/ EnqueueDownload("file", FolderFiles(1), <<>>)
  \/ EnqueueUploadFile(0)
  \/ \E n \in 0..MaxFiles : UploadFolderBegin(FolderFiles(n), <<>>)
  \/ \E id \in DOMAIN transfers : RetryFailed(id)
  \/ Settle

\* A pending connect ends by the ready prompt, an error, the exit of the process
\* or the connect timeout, and a pending command is assumed to end by its
\* sentinel or by the exit of the process: no settling is postponed for ever.
SettlingSpec == Init /\ [][SettlingNext]_vars /\ WF_vars(Settle)

\* One SftpSession object with its callers and its processes.
SessionInit == Init /\ maxConcurrent = 1

SessionNext ==
  \/ \E spawnOk \in BOOLEAN : Connect(spawnOk)
  \/ \E p \in DOMAIN sftp.procs : ConnectTimeout(p)
  \/ \E p \in DOMAIN sftp.procs, chunk \in Chunks : ProcessData(p, chunk)
  \/ \E p \in DOMAIN sftp.procs : ProcessExit(p)
  \/ \E accept \in BOOLEAN : RespondToHostKey(accept)
  \/ Execute
  \/ CallerKill

SessionSpec == SessionInit /\ [][SessionNext]_vars

\* A timeout that is armed fires, and a process that was killed exits. Nothing
\* obliges a process to print or to exit by itself, or a caller to call.
SessionFairness ==
  /\ WF_vars(\E p \in DOMAIN sftp.procs : ConnectTimeout(p))
  /\ WF_vars(\E p \in DOMAIN sftp.procs :
               sftp.procs[p].status = "killed" /\ ProcessExit(p))

SessionFairSpec == SessionSpec /\ SessionFairness

\* One command in flight and the text its process prints.
FrameInit ==
  /\ ManagerInit /\ maxConcurrent = 1
  /\ sftp = NewSession
  /\ frame \in {NewFrame(chunks) : chunks \in Deliveries(MaxOutput)}
  /\ esc = NewCall(<<>>)
  /\ samples = NewSamples
  /\ walk = NewWalk(NoTree)

FrameSpec == FrameInit /\ [][FrameData]_vars

\* One mkdir call and the text of its path.
EscapeInit ==
  /\ ManagerInit /\ maxConcurrent = 1
  /\ sftp = NewSession
  /\ frame = NewFrame(<<>>)
  /\ esc \in {NewCall(path) : path \in Paths}
  /\ samples = NewSamples
  /\ walk = NewWalk(NoTree)

EscapeSpec == EscapeInit /\ [][Mkdir]_vars

\* One TransferItem and its progress updates over time.
SamplesInit ==
  /\ ManagerInit /\ maxConcurrent = 1
  /\ sftp = NewSession
  /\ frame = NewFrame(<<>>)
  /\ esc = NewCall(<<>>)
  /\ samples = NewSamples
  /\ walk = NewWalk(NoTree)

SamplesSpec == SamplesInit /\ [][\E dt \in 0..(SpeedWindow + 1) : Sample(dt)]_vars

\* One rmdir call on each of the finite trees, every command of which is
\* answered: execute resolves a command when its sentinel line is printed.
WalkNext == Rmdir \/ ListSettles \/ RmSettles \/ RmdirSettles

WalkInit ==
  /\ ManagerInit /\ maxConcurrent = 1
  /\ sftp = NewSession
  /\ frame = NewFrame(<<>>)
  /\ esc = NewCall(<<>>)
  /\ samples = NewSamples
  /\ walk \in {NewWalk(tree) : tree \in Trees}

WalkSpec == WalkInit /\ [][WalkNext]_vars /\ WF_vars(WalkNext)

(* ------------------------------ properties ----------------------------- *)

\* The status transfer t had when cancel(t) was called, for each such call.
CancelledAt(t) == {cancelCalls[i].status : i \in {j \in 1..Len(cancelCalls) : cancelCalls[j].id = t}}

\* The targets of the deletes a cancel call has issued so far.
Targets(c) == {o.target : o \in c.issued}

\* The sessions whose current FileWork belongs to transfer t.
SessionsOf(t) == {e.session : e \in {x \in SeqToSet(activeSessions) : x.work.transferId = t}}

\* C1: in every reachable state the idle pooled sessions plus the entries of the
\* active-session map are at most maxConcurrent, also right after
\* setMaxConcurrent lowered the limit.
C1_WithinLimit == Len(sessionPool) + Len(activeSessions) <= maxConcurrent

\* C2: scheduling passes are never re-entered: while one processNext call is
\* suspended in getOrCreateSession no other call dequeues FileWork, so at most
\* one call is ever suspended there.
C2_NoReentry == Cardinality(passes) <= 1

\* C3: a folder transfer decomposed into M > 1 FileWork items whose M transfer
\* commands all settled under a live manager with no cancel of it, N of them
\* rejecting: failedFiles holds exactly N entries, one per failed file; with
\* 0 <= N < M the status is completed, with N = M it is failed.
C3_FolderOutcome ==
  \A t \in DOMAIN transfers :
    LET x == transfers[t]
    IN (/\ x.totalFiles > 1
        /\ x.resolved + x.rejected = x.totalFiles
        /\ CancelledAt(t) = {}
        /\ ~destroying)
       => /\ Len(x.failedFiles) = x.rejected
          /\ Cardinality({x.failedFiles[i].sourcePath : i \in 1..Len(x.failedFiles)}) = x.rejected
          /\ x.rejected < x.totalFiles => x.status = "completed"
          /\ x.rejected = x.totalFiles => x.status = "failed"

\* A folder of two files ended with one file failed and one transferred.
C3_Witness ==
  \E t \in DOMAIN transfers :
    /\ transfers[t].totalFiles = 2 /\ transfers[t].resolved = 1 /\ transfers[t].rejected = 1
    /\ CancelledAt(t) = {} /\ ~destroying
    /\ transfers[t].status = "completed"

\* C4: cancel of an active folder transfer with completed and in-flight files,
\* once its deletes are issued: under remove-partial they are exactly the
\* destination files of the FileWork in flight at the call; under remove-all it
\* is one delete of the directory the files of the transfer are written to.
C4_FolderCleanup ==
  \A c \in cancels :
    LET x == transfers[c.id]
    IN (/\ x.isFolder /\ cancelCalls[c.call].status = "active"
        /\ c.inFlight # <<>> /\ x.resolved > 0
        /\ c.phase = "deleting" /\ ~c.skipped)
       => /\ c.mode = "remove-partial"
               => /\ Targets(c) \subseteq {DestFile(w) : w \in SeqToSet(c.inFlight)}
                  /\ c.rest = <<>> => Targets(c) = {DestFile(w) : w \in SeqToSet(c.inFlight)}
          /\ c.mode = "remove-all" => Targets(c) = {w.destPath : w \in SeqToSet(c.inFlight)}

\* C5: cancel of an active transfer that is not in folder mode issues one delete,
\* of the destination file its in-flight FileWork was writing, whatever the
\* cleanup mode and whichever call created the transfer.
C5_FileCleanup ==
  \A c \in cancels :
    (/\ ~transfers[c.id].isFolder /\ cancelCalls[c.call].status = "active"
     /\ c.inFlight # <<>> /\ c.phase = "deleting")
    => Targets(c) = {DestFile(w) : w \in SeqToSet(c.inFlight)}

\* C6, as stated: after cancel(t) was called with t still queued, none of t's
\* FileWork is in the queue, t is cancelled once the call has ended, and no
\* session was created or acquired on behalf of t, during its enqueue included.
C6_NoSessionAtAll ==
  \A t \in DOMAIN transfers :
    "queued" \in CancelledAt(t)
    => /\ \A i \in 1..Len(fileQueue) : fileQueue[i].transferId # t
       /\ (\A c \in cancels : c.id # t) => transfers[t].status = "cancelled"
       /\ transfers[t].acquired = 0
       /\ ~transfers[t].borrowed

\* C6, amended: after cancel(t) was called with t still queued, none of t's
\* FileWork is in the queue, t is cancelled once the call has ended, and no
\* session is ever acquired for a FileWork of t (the session its enqueue may
\* have borrowed for mkdir calls is the only one used on its behalf).
C6_NoSessionForWork ==
  \A t \in DOMAIN transfers :
    "queued" \in CancelledAt(t)
    => /\ \A i \in 1..Len(fileQueue) : fileQueue[i].transferId # t
       /\ (\A c \in cancels : c.id # t) => transfers[t].status = "cancelled"
       /\ transfers[t].acquired = 0

\* A directory upload was cancelled while queued, and the cancel has ended.
C6_Witness ==
  \E t \in DOMAIN transfers :
    /\ "queued" \in CancelledAt(t) /\ transfers[t].borrowed
    /\ transfers[t].totalFiles > 1
    /\ transfers[t].status = "cancelled"

C8_Destroyed ==
  destroying
  => /\ fileQueue = <<>> /\ sessionPool = <<>> /\ activeSessions = <<>>
     /\ \A s \in DOMAIN sess : sess[s] \notin {"connected", "connecting"}

\* C9: when the connect awaited by a scheduling pass for a FileWork rejects, in
\* any reachable state: the owning transfer is failed with an error string, one
\* more 'failed' event is emitted for it, none of its FileWork stays queued, and
\* if FileWork of others is queued below the limit the pass dequeues again.
C9_AcquireFailure ==
  \A p \in passes :
    LET t == p.work.transferId
        m == AcquireFailed(SetSess(Mgr, p.session, "dead"), p)
        others == SelectSeq(fileQueue, LAMBDA w : w.transferId # t)
    IN /\ m.transfers[t].status = "failed"
       /\ m.transfers[t].error # ""
       /\ m.transfers[t].emitted.failed = transfers[t].emitted.failed + 1
       /\ \A i \in 1..Len(m.fileQueue) : m.fileQueue[i].transferId # t
       /\ (others # <<>> /\ Len(activeSessions) < maxConcurrent)
            => Len(m.fileQueue) < Len(others)

\* A transfer of two files failed on the session acquisition for its second
\* file, and the FileWork of the other transfer has been taken from the queue.
C9_Witness ==
  \E t \in DOMAIN transfers, u \in DOMAIN transfers :
    /\ t # u /\ maxConcurrent = 1 /\ ~destroying /\ cancelCalls = <<>>
    /\ transfers[t].error = "Session creation failed"
    /\ transfers[t].acquired = 2 /\ transfers[t].rejected = 1
    /\ transfers[u].status = "active" /\ transfers[u].acquired = 1
    /\ \E p \in passes : p.work.transferId = u

\* C10: a session on which an operation of the manager rejected is never in the
\* idle pool.
C10_ErroredNotPooled == errored \cap SeqToSet(sessionPool) = {}

\* The fields of a TransferMeta and its item that the program holds.
ItemFields(x) ==
  [status |-> x.status, error |-> x.error, failedFiles |-> x.failedFiles,
   totalFiles |-> x.totalFiles, completedFiles |-> x.completedFiles,
   isFolder |-> x.isFolder, filename |-> x.filename]

\* C11: retryFailed(t), in any reachable state. With k >= 1 failed files it
\* registers one new item with totalFiles = k and pushes exactly k FileWork, the
\* i-th with the source path, destination path and name of the i-th failed file,
\* and the original keeps its status, counters and failedFiles, also after the
\* scheduling pass the call ends with. With no failed file nothing changes.
C11_RetryFailed ==
  \A t \in DOMAIN transfers :
    LET failed == transfers[t].failedFiles
        k == Len(failed)
        m == RetryEnqueue(Mgr, t)
        end == RetryCall(Mgr, t)
    IN /\ k = 0 => end = Mgr
       /\ k >= 1 =>
            /\ DOMAIN m.transfers = DOMAIN transfers \cup {nextId}
            /\ nextId \notin DOMAIN transfers
            /\ m.transfers[nextId].totalFiles = k
            /\ m.transfers[nextId].completedFiles = 0
            /\ Len(m.fileQueue) = Len(fileQueue) + k
            /\ SubSeq(m.fileQueue, 1, Len(fileQueue)) = fileQueue
            /\ \A i \in 1..k :
                 LET w == m.fileQueue[Len(fileQueue) + i]
                 IN /\ w.transferId = nextId
                    /\ w.sourcePath = failed[i].sourcePath
                    /\ w.destPath = failed[i].destPath
                    /\ w.filename = failed[i].name
            /\ m.transfers[t] = transfers[t]
            /\ ItemFields(end.transfers[t]) = ItemFields(transfers[t])

\* A folder of two files had one file transferred and one failed, and
\* retryFailed has created the transfer that retries the failed one.
C11_Witness ==
  \E t \in DOMAIN transfers, u \in DOMAIN transfers :
    /\ transfers[t].resolved = 1 /\ Len(transfers[t].failedFiles) = 1
    /\ transfers[u].filename = RetryName(transfers[t].filename)
    /\ transfers[u].totalFiles = 1

\* C12: for every item in folder mode, whatever samples arrived from whichever
\* sessions, transferred is at most total, and every registered (name, size)
\* entry is either still pending or was added to the completed bytes once.
C12_TransferredWithinTotal ==
  \A t \in DOMAIN transfers :
    LET x == transfers[t]
    IN x.isFolder => /\ x.transferred <= x.total
                     /\ x.completedBytes + SumSizes(x.fileSizes) = x.total

\* Of two files of one name in different directories, one has been counted and
\* the entry of the other is still pending.
C12_Witness ==
  \E t \in DOMAIN transfers :
    LET x == transfers[t]
    IN /\ x.isFolder /\ x.currentFileCompleted /\ x.completedBytes > 0
       /\ \E i \in 1..Len(x.fileSizes) :
            x.fileSizes[i].name = x.currentFileName /\ x.fileSizes[i].size > 0

\* C13: an item on which setFileSizes was called has percent at most 99 in every
\* state where its status is not completed.
C13_PercentBelow100 ==
  \A t \in DOMAIN transfers :
    (transfers[t].isFolder /\ transfers[t].status # "completed")
    => transfers[t].percent <= 99

\* C14: in a folder transfer the size of a file whose FileWork failed is not
\* counted as transferred: transferred is at most the total less the sizes of
\* the files that failed (100 of 300 bytes when b, of 200 bytes, failed).
C14_FailedNotCounted ==
  \A t \in DOMAIN transfers :
    transfers[t].isFolder
    => transfers[t].transferred + transfers[t].rejectedBytes <= transfers[t].total


\* The commands written to a process whose promise is still pending.
InFlight == {i \in DOMAIN sftp.written : sftp.cmds[sftp.written[i].cmd].status = "pending"}

CommandProcess(c) ==
  IF \E i \in DOMAIN sftp.written : sftp.written[i].cmd = c
  THEN sftp.written[CHOOSE i \in DOMAIN sftp.written : sftp.written[i].cmd = c].proc
  ELSE sftp.cmds[c].proc

\* Command c is pending and its process was killed.
PendingOnKilled(c) ==
  IF c \in DOMAIN sftp.cmds
  THEN sftp.cmds[c].status = "pending" /\ sftp.procs[CommandProcess(c)].status = "killed"
  ELSE FALSE

\* resolve or reject was called on command c.
Settled(c) == IF c \in DOMAIN sftp.cmds THEN sftp.cmds[c].status # "pending" ELSE FALSE

\* C16: every command execute accepted is settled exactly once: resolve or reject is
\* called on it at most once, it is pending exactly as long as neither was called,
\* it is not pending once its process has exited, and once its process was
\* killed it does not stay pending.
C16_SettledOnce ==
  [](/\ \A c \in DOMAIN sftp.cmds :
          /\ sftp.cmds[c].settles <= 1
          /\ sftp.cmds[c].status = "pending" <=> sftp.cmds[c].settles = 0
          /\ sftp.cmds[c].status = "pending" =>
               sftp.procs[CommandProcess(c)].status # "exited"
     /\ \A c \in 1..MaxCommands : PendingOnKilled(c) => <>Settled(c))

\* One command was resolved by its sentinel line and a later one rejected by the
\* exit of the process after it was killed.
C16_Witness ==
  /\ Len(sftp.cmds) = 2
  /\ sftp.cmds[1].status = "resolved" /\ sftp.cmds[1].settles = 1
  /\ sftp.cmds[2].status = "rejected" /\ sftp.cmds[2].settles = 1
  /\ sftp.procs[CommandProcess(2)].status = "exited"
  /\ \E i \in DOMAIN sftp.written : sftp.written[i].cmd = 2


\* The exit event of process p is handled in this step.
ExitFires(p) == sftp.procs[p].status # "exited" /\ sftp'.procs[p].status = "exited"

\* C17: when the exit event of a process fires, the command in flight and every
\* queued command are rejected ('Connection closed' is the only rejection of a
\* command), the queue becomes empty and the state Disconnected; and no command
\* is written to a process after an exit event unless connect was called again.
C17_ExitRejectsAll ==
  /\ [][\A p \in DOMAIN sftp.procs :
          ExitFires(p) =>
            /\ \A c \in DOMAIN sftp.cmds :
                 sftp.cmds[c].status = "pending" => sftp'.cmds[c].status = "rejected"
            /\ sftp'.commandQueue = <<>> /\ sftp'.currentCommand = 0
            /\ ~sftp'.connected /\ ~sftp'.connecting]_vars
  /\ [](\A i \in DOMAIN sftp.written : ~sftp.written[i].afterExit)

\* An exit event rejected a command in flight and a queued one.
C17_Witness ==
  /\ Len(sftp.cmds) = 2 /\ Len(sftp.written) = 1
  /\ sftp.cmds[1].status = "rejected" /\ sftp.cmds[2].status = "rejected"
  /\ sftp.sinceExit /\ sftp.commandQueue = <<>>
  /\ ~sftp.connected /\ ~sftp.connecting


\* The promise of the connect call that spawned process p is pending / settled.
ConnectPending(p) ==
  IF p \in DOMAIN sftp.procs THEN sftp.procs[p].promise = "pending" ELSE FALSE

ConnectSettled(p) ==
  IF p \in DOMAIN sftp.procs THEN sftp.procs[p].promise # "pending" ELSE FALSE

\* C18: every connect call that has spawned a process eventually settles: its
\* promise is resolved or rejected, whatever the process does, an exit during
\* Connecting included.
C18_ConnectSettles ==
  [](\A p \in 1..MaxConnects : ConnectPending(p) => <>ConnectSettled(p))


\* C19: from the moment a host-key prompt of a pending connect was surfaced until
\* respondToHostKey is called, that connect is neither resolved nor rejected and
\* its process is not killed.
C19_WaitsForAnswer ==
  \A p \in DOMAIN sftp.procs :
    sftp.procs[p].waiting =>
      sftp.procs[p].promise = "pending" /\ sftp.procs[p].status # "killed"


\* The state of the session, from its two flags.
SessionState(s) ==
  IF s.connected /\ s.connecting THEN "Both"
  ELSE IF s.connected THEN "Connected"
  ELSE IF s.connecting THEN "Connecting"
  ELSE "Disconnected"

\* C20: the state of a session changes only from Disconnected to Connecting by a
\* connect call, from Connecting to Connected, and from Connecting or Connected
\* to Disconnected, by an exit event only if it is the exit of the current
\* process; connected and connecting are never both true; and a connect call
\* made while Connecting or Connected changes nothing.
C20_StateMachine ==
  /\ [](SessionState(sftp) # "Both")
  /\ [](\A spawnOk \in BOOLEAN :
          SessionState(sftp) # "Disconnected" => SftpConnect(sftp, spawnOk) = sftp)
  /\ [][SessionState(sftp') # SessionState(sftp) =>
          \/ /\ SessionState(sftp) = "Disconnected" /\ SessionState(sftp') = "Connecting"
             /\ sftp' = SftpConnect(sftp, TRUE)
          \/ SessionState(sftp) = "Connecting" /\ SessionState(sftp') = "Connected"
          \/ /\ SessionState(sftp') = "Disconnected"
             /\ \A p \in DOMAIN sftp.procs : ExitFires(p) => p = sftp.ptyProcess]_vars


\* The text has a line equal to the sentinel, lines ending in LF or in CR LF.
HasSentinelLine(text) ==
  IndexOf(<<"LF">> \o RemoveCR(text) \o <<"LF">>, <<"LF">> \o Sentinel \o <<"LF">>) # 0

\* C21: once the output of the command in flight has been delivered, the command
\* was resolved, once, exactly if the output has a line equal to its sentinel,
\* however the output was cut into chunks and whichever line ending it uses.
C21_ResolvedBySentinelLine ==
  frame.chunks = <<>> /\ frame.stream # <<>>
    => /\ frame.resolves <= 1
       /\ frame.resolves = 1 <=> HasSentinelLine(Flatten(frame.stream))


RECURSIVE ParseArgs(_, _, _, _)
\* The arguments of a command line, read the way escapePath writes for: spaces
\* separate arguments outside double quotes, a double quote opens or closes a
\* quoted stretch, and inside one a backslash makes the next character literal.
ParseArgs(text, quoted, cur, args) ==
  IF text = <<>> THEN (IF cur = <<>> THEN args ELSE Append(args, cur))
  ELSE LET ch == Head(text)
       IN IF quoted
          THEN IF ch = "BS" /\ Len(text) >= 2
               THEN ParseArgs(SubSeq(text, 3, Len(text)), TRUE, Append(cur, text[2]), args)
               ELSE IF ch = "DQ" THEN ParseArgs(Tail(text), FALSE, cur, args)
               ELSE ParseArgs(Tail(text), TRUE, Append(cur, ch), args)
          ELSE IF ch = "SP"
               THEN ParseArgs(Tail(text), FALSE, <<>>,
                              IF cur = <<>> THEN args ELSE Append(args, cur))
               ELSE IF ch = "DQ" THEN ParseArgs(Tail(text), TRUE, cur, args)
               ELSE ParseArgs(Tail(text), FALSE, Append(cur, ch), args)

\* C26: a mkdir call with a path without control character writes a command that
\* reads as the command word and exactly one argument, equal to the path, the
\* argument being one double-quoted stretch; with a control character in the
\* path the call throws and nothing is written.
C26_EscapeRoundTrip ==
  /\ esc.state = "written"
       => /\ ~HasControl(esc.path)
          /\ ParseArgs(esc.written, FALSE, <<>>, <<>>) = <<(<<"m", "k", "d", "i", "r">>), esc.path>>
          /\ esc.written[7] = "DQ" /\ esc.written[Len(esc.written)] = "DQ"
          /\ Len(esc.written) = 8 + Len(esc.path)
               + Cardinality({k \in 1..Len(esc.path) : esc.path[k] \in {"BS", "DQ"}})
  /\ esc.state = "thrown" => HasControl(esc.path) /\ esc.written = <<>>

\* mkdir was called with a path that holds a backslash, a space and a quote.
C26_Witness ==
  /\ esc.state = "written"
  /\ esc.path = <<"BS", "SP", "DQ">>


\* The FileWork of transfer t that is queued, awaits a session or is at work.
WorkOf(t) ==
  {w \in SeqToSet(fileQueue) : w.transferId = t}
    \cup {p.work : p \in {q \in passes : q.work.transferId = t}}
    \cup {e.work : e \in {x \in executing : x.work.transferId = t}}

\* C22: whenever a directory transfer is decomposed into per-file FileWork, a
\* mkdir call was made for the root of its destination and for every directory
\* of its source tree, one without files included, before its first FileWork
\* was queued or admitted.
C22_DirectoriesFirst ==
  \A t \in DOMAIN transfers :
    LET x == transfers[t]
        destDir == IF x.direction = "download" THEN join(x.localPath, x.filename)
                   ELSE join(x.remotePath, x.filename)
    IN x.decomposed
       => SeqToSet(x.made) = {destDir} \cup {destDir \o x.dirs[i] : i \in 1..Len(x.dirs)}

\* A directory with a subdirectory that holds no file was decomposed, and its
\* first FileWork is at work.
C22_Witness ==
  \E t \in DOMAIN transfers :
    /\ transfers[t].decomposed
    /\ \E i \in 1..Len(transfers[t].dirs) : transfers[t].dirs[i] = <<"empty">>
    /\ \E e \in executing : e.work.transferId = t
    /\ transfers[t].resolved + transfers[t].rejected = 0
    /\ WorkOf(t) # {}


\* The cancel call with number k has ended.
CancelEnded(k) == k \in 1..Len(cancelCalls) /\ \A c \in cancels : c.call # k

\* C23: a cancel call never ends otherwise than by marking its transfer: in the
\* step in which it ends the status becomes cancelled and one 'cancelled' event
\* is emitted, whether its deletes succeeded, failed once or failed twice; and
\* no delete is attempted more than twice.
C23_CancelSwallowsDeletes ==
  /\ [](\A c \in cancels : c.tries <= 2)
  /\ [][\A c \in cancels :
          (\A d \in cancels' : d.call # c.call)
            => /\ transfers'[c.id].status = "cancelled"
               /\ transfers'[c.id].emitted.cancelled = transfers[c.id].emitted.cancelled + 1]_vars

\* A cancel call ended, its transfer cancelled, after a delete failed twice.
C23_Witness ==
  \E k \in 1..Len(cancelCalls) :
    /\ CancelEnded(k)
    /\ cancelCalls[k].abandoned > 0
    /\ transfers[cancelCalls[k].id].status = "cancelled"
    /\ transfers[cancelCalls[k].id].emitted.cancelled = 1


\* The step leaves transfer y as it was, but for the scheduling pass that ends
\* the handler, which may start y's queued FileWork (queued -> active, 'started'):
\* no other field of y changes, none of y's queued FileWork is lost, and every
\* session executing y's FileWork is still executing it, in the same state.
OthersKept(x) ==
  \A y \in DOMAIN transfers \ {x} :
    /\ y \in DOMAIN transfers'
    /\ [transfers'[y] EXCEPT !.status = transfers[y].status,
                             !.emitted.started = transfers[y].emitted.started,
                             !.acquired = transfers[y].acquired] = transfers[y]
    /\ \/ transfers'[y].status = transfers[y].status
       \/ transfers[y].status = "queued" /\ transfers'[y].status = "active"
    /\ \A w \in SeqToSet(fileQueue) :
         w.transferId = y =>
           \/ w \in SeqToSet(fileQueue')
           \/ w \in {p.work : p \in passes'} \cup {e.work : e \in executing'}
    /\ \A e \in SeqToSet(activeSessions) :
         e.work.transferId = y =>
           /\ e \in SeqToSet(activeSessions')
           /\ sess'[e.session] = sess[e.session]
    /\ \A e \in executing : e.work.transferId = y => e \in executing'

SingleFile(e) == ~transfers[e.work.transferId].isFolder

\* C25: for a single-file transfer the percent is 0 until it starts, after each
\* progress sample it is the percent of that sample, and when the transfer
\* command succeeds the status becomes completed with percent 100.
C25_SingleFilePercent ==
  /\ [](\A id \in DOMAIN transfers :
          ~transfers[id].isFolder /\ transfers[id].status = "queued"
            => transfers[id].percent = 0)
  /\ [][\A e \in executing :
          SingleFile(e) =>
            /\ \A percent \in SamplePercents :
                 ProgressSample(e, percent)
                   => transfers'[e.work.transferId].percent = percent
            /\ WorkSucceeds(e)
                 => /\ transfers'[e.work.transferId].status = "completed"
                    /\ transfers'[e.work.transferId].percent = 100]_vars

\* A download of one file of MaxSize bytes is active and shows the percent of
\* its last sample, which is below 100.
C25_Witness ==
  \E e \in executing :
    /\ SingleFile(e)
    /\ e.work.direction = "download" /\ e.work.size = MaxSize
    /\ transfers[e.work.transferId].status = "active"
    /\ transfers[e.work.transferId].percent \in SamplePercents \ {100}


TerminalStatuses == {"completed", "failed", "cancelled"}

\* C27: terminal statuses are absorbing: once the status of a transfer is
\* completed, failed or cancelled, no step changes it.
C27_TerminalAbsorbing ==
  [][\A id \in DOMAIN transfers :
       transfers[id].status \in TerminalStatuses
         => transfers'[id].status = transfers[id].status]_vars


\* A FileWork of transfer id is executing: an executeWork call of it awaits its
\* transfer command on a session whose process runs.
ExecutingFor(id) ==
  \E e \in executing : e.work.transferId = id /\ IsConnected(Mgr, e.session)

\* C28: after cancel(id) has resolved, no FileWork of id is executing on any
\* session (so none is executing when it resolves and none starts later), also
\* when a FileWork of id was waiting for its session as cancel was called.
C28_NothingRunsAfterCancel ==
  \A k \in 1..Len(cancelCalls) : CancelEnded(k) => ~ExecutingFor(cancelCalls[k].id)


\* C29: cancel(id) of a transfer whose status is completed, failed or cancelled
\* is a no-op: the call ends at once with no delete issued, no session killed
\* or unbound, no FileWork removed and no field or event count of any transfer
\* changed.
C29_CancelOfTerminalIsNoOp ==
  [][\A id \in DOMAIN transfers, mode \in CleanupModes, mainOk \in BOOLEAN :
       (transfers[id].status \in TerminalStatuses /\ Cancel(id, mode, mainOk))
         => /\ cancels' = cancels
            /\ transfers' = transfers
            /\ sess' = sess
            /\ activeSessions' = activeSessions
            /\ fileQueue' = fileQueue]_vars


\* Transfer id was accepted (registered by an enqueue or by retryFailed).
Accepted(id) == id \in DOMAIN transfers

Ended(id) ==
  IF id \in DOMAIN transfers THEN transfers[id].status \in TerminalStatuses ELSE FALSE

\* C30: without destroy, and with every connect and every command settling,
\* every accepted transfer eventually reaches completed, failed or cancelled,
\* a directory transfer without files included.
C30_EveryTransferEnds ==
  [](\A id \in 1..MaxTransfers : Accepted(id) => <>Ended(id))


\* No FileWork of transfer id was ever bound to a session: none is executing
\* and none has ended.
NeverAdmitted(id) ==
  /\ transfers[id].resolved = 0 /\ transfers[id].rejected = 0
  /\ \A e \in executing : e.work.transferId # id

\* C31: a cancel call on a transfer none of whose FileWork was ever admitted
\* issues no delete at the destination, for a file and for a folder transfer and
\* under both cleanup modes.
C31_NoDeleteIfNeverAdmitted ==
  \A c \in cancels : NeverAdmitted(c.id) => c.issued = {}


\* The session objects bound to a FileWork in the active map.
ActiveSessionObjects == {activeSessions[i].session : i \in 1..Len(activeSessions)}

\* C32: no session object is in the idle pool and in the active map at once,
\* none is twice in the idle pool, none is bound to two active FileWork items,
\* and the session borrowed for the remote mkdir calls is in neither.
C32_SessionsNotShared ==
  /\ SeqToSet(sessionPool) \cap ActiveSessionObjects = {}
  /\ \A i \in 1..Len(sessionPool), j \in 1..Len(sessionPool) :
       i # j => sessionPool[i] # sessionPool[j]
  /\ \A i \in 1..Len(activeSessions), j \in 1..Len(activeSessions) :
       i # j => activeSessions[i].session # activeSessions[j].session
  /\ \A b \in borrows : b.session \notin SeqToSet(sessionPool) \cup ActiveSessionObjects
  /\ \A b \in borrows, d \in borrows : b # d => b.session # d.session

\* An idle session, a session at work and a session borrowed for mkdir calls
\* exist at the same time.
C32_Witness ==
  /\ sessionPool # <<>>
  /\ activeSessions # <<>>
  /\ borrows # {}


\* C33: at all times, for every transfer, the number of failed files is at most
\* the number of finished files, which is at most totalFiles; totalFiles is the
\* number of FileWork items ever created for the transfer; and the status is
\* completed only with completedFiles = totalFiles.
C33_FileCounts ==
  \A t \in DOMAIN transfers :
    LET x == transfers[t]
    IN /\ Len(x.failedFiles) <= x.completedFiles
       /\ x.completedFiles <= x.totalFiles
       /\ x.totalFiles = x.created
       /\ x.status = "completed" => x.completedFiles = x.totalFiles

\* A folder of two files is completed with one failed file, and so is the retry
\* of that file.
C33_Witness ==
  \E t \in DOMAIN transfers, r \in DOMAIN transfers :
    /\ transfers[t].totalFiles = 2 /\ Len(transfers[t].failedFiles) = 1
    /\ transfers[t].status = "completed"
    /\ r # t /\ transfers[r].filename = RetryName(transfers[t].filename)
    /\ transfers[r].created = 1 /\ transfers[r].status = "completed"


\* C34: while the session is connected, a chunk of process output, whatever it
\* contains, leaves it connected: only kill() and the exit event of the process
\* make isConnected false.
C34_OutputKeepsConnected ==
  [][\A p \in DOMAIN sftp.procs, chunk \in Chunks :
       (sftp.connected /\ ProcessData(p, chunk)) => sftp'.connected]_vars


\* C35: for every transfer 'queued' was emitted exactly once, at acceptance;
\* 'started' is emitted at most once, with the change queued -> active, when
\* the first of its FileWork is taken up by processNext; and every event of
\* executeWork ('progress', 'completed', 'failed') and the 'failed' of
\* processNext come after 'started'.
C35_EventOrder ==
  /\ \A t \in DOMAIN transfers :
       LET x == transfers[t]
       IN /\ x.emitted.queued = 1
          /\ x.emitted.started <= 1
          /\ x.emitted.started = 1 <=> x.acquired > 0
          /\ x.status = "queued" => x.emitted.started = 0
          /\ x.status = "active" => x.emitted.started = 1
          /\ x.emitted.completed + x.emitted.failed > 0 => x.emitted.started = 1
  /\ \A e \in executing : transfers[e.work.transferId].emitted.started = 1

\* A folder of two files whose FileWork were both taken up and settled: one
\* 'queued', one 'started', then 'completed'.
C35_Witness ==
  \E t \in DOMAIN transfers :
    /\ transfers[t].totalFiles = 2 /\ transfers[t].acquired = 2
    /\ transfers[t].emitted.queued = 1 /\ transfers[t].emitted.started = 1
    /\ transfers[t].emitted.completed = 1


\* The FileWork that awaits a session or is at work.
TakenWork == {p.work : p \in passes} \cup {e.work : e \in executing}

\* The position of FileWork w in the queue; 0 when it is not queued.
QueuePos(queue, w) ==
  IF \E i \in 1..Len(queue) : queue[i] = w
  THEN CHOOSE i \in 1..Len(queue) : queue[i] = w
  ELSE 0

\* C36: every FileWork leaves the queue at most once and is executed by at most
\* one session; FileWork is dequeued in the order it was enqueued; and a
\* FileWork that was executed or dropped is never queued again (retryFailed
\* pushes FileWork of a new transfer).
C36_ConsumedOnce ==
  /\ [](/\ \A i \in 1..Len(fileQueue), j \in 1..Len(fileQueue) :
             i # j => fileQueue[i] # fileQueue[j]
        /\ SeqToSet(fileQueue) \cap TakenWork = {}
        /\ \A p \in passes, e \in executing : p.work # e.work
        /\ \A p \in passes, q \in passes : p.work = q.work => p = q
        /\ \A e \in executing, f \in executing : e.work = f.work => e = f
        /\ \A t \in DOMAIN transfers :
             /\ transfers[t].acquired <= transfers[t].created
             /\ transfers[t].resolved + transfers[t].rejected <= transfers[t].acquired)
  /\ [][/\ \A w \in SeqToSet(fileQueue') :
             \/ w.transferId \notin DOMAIN transfers
             \/ transfers[w.transferId].created = 0
             \/ w \in SeqToSet(fileQueue)
        /\ \A v \in SeqToSet(fileQueue'), w \in SeqToSet(fileQueue') :
             (QueuePos(fileQueue, v) # 0 /\ QueuePos(fileQueue, w) # 0
                /\ QueuePos(fileQueue, v) < QueuePos(fileQueue, w))
               => QueuePos(fileQueue', v) < QueuePos(fileQueue', w)
        /\ \A w \in TakenWork' \ TakenWork :
             /\ QueuePos(fileQueue, w) # 0 \/ w.transferId \notin DOMAIN transfers
                  \/ transfers[w.transferId].created = 0
             /\ \A v \in SeqToSet(fileQueue') :
                  QueuePos(fileQueue, v) # 0 => QueuePos(fileQueue, w) < QueuePos(fileQueue, v)]_vars

\* The retry of a failed file is at work, on FileWork of its own, while the
\* queue holds FileWork and the FileWork of the original transfer has ended.
C36_Witness ==
  \E t \in DOMAIN transfers, r \in DOMAIN transfers :
    /\ r # t /\ transfers[r].filename = RetryName(transfers[t].filename)
    /\ transfers[t].resolved + transfers[t].rejected = transfers[t].created
    /\ \E e \in executing : e.work.transferId = r
    /\ fileQueue # <<>>


\* min(floor(completedBytes * 100 / total), 99)
FlooredPercent(completedBytes, total) ==
  LET floored == (100 * completedBytes) \div total
  IN IF floored < 99 THEN floored ELSE 99

\* C37: for a folder item with total > 0 that is not completed, the percent is
\* min(floor(completedBytes * 100 / total), 99), whatever part of the total is
\* completed.
C37_FolderPercentFloored ==
  \A t \in DOMAIN transfers :
    LET x == transfers[t]
    IN (x.isFolder /\ x.total > 0 /\ x.status # "completed")
       => x.percent = FlooredPercent(x.completedBytes, x.total)


\* The samples recorded so far that are older than the edge of the window.
OlderRecorded == {r \in SeqToSet(samples.recorded) : r.time < samples.now - SpeedWindow}

\* C38: after every progress update that records a sample, the retained samples
\* are in non-decreasing time order, every recorded sample inside the window is
\* retained, and if a recorded sample is older than the edge of the window,
\* exactly one such sample is retained: the newest of them.
C38_WindowWithAnchor ==
  samples.recorded # <<>> =>
    /\ \A i \in 1..Len(samples.speedSamples), j \in 1..Len(samples.speedSamples) :
         i < j => samples.speedSamples[i].time <= samples.speedSamples[j].time
    /\ \A r \in SeqToSet(samples.recorded) :
         r.time >= samples.now - SpeedWindow => r \in SeqToSet(samples.speedSamples)
    /\ OlderRecorded # {} =>
         {r \in SeqToSet(samples.speedSamples) : r.time < samples.now - SpeedWindow}
           = {r \in OlderRecorded : \A q \in OlderRecorded : q.n <= r.n}

\* Several recorded samples are older than the edge of the window, and several
\* are inside it.
C38_Witness ==
  /\ Cardinality(OlderRecorded) >= 2
  /\ Cardinality(SeqToSet(samples.recorded) \ OlderRecorded) >= 2
  /\ Len(samples.speedSamples) >= 3


\* The number of commands op path written so far.
Issued(op, path) ==
  Cardinality({i \in 1..Len(walk.issued) : walk.issued[i] = [op |-> op, path |-> path]})

\* The command that removes the entry at path was written before position i.
RemovedBefore(path, i) ==
  \E j \in 1..(i - 1) :
    walk.issued[j] = [op |-> IF path \in walk.tree.dirs THEN "rmdir" ELSE "rm", path |-> path]

\* C39: on a finite remote tree rmdir terminates; it writes one rm for each
\* entry that is no directory and one rmdir for each directory of the tree,
\* the one it was called on included, and nothing else but listings; the rmdir
\* of a directory comes after the remove commands of all entries listed in it;
\* and no command is written for a '.' or '..' row.
C39_RecursiveRemove ==
  /\ <>(walk.state = "resolved")
  /\ [](/\ \A p \in TreePaths \cup {<<>>} :
             /\ Issued("rm", p) <= (IF p \in walk.tree.files THEN 1 ELSE 0)
             /\ Issued("rmdir", p) <= (IF p \in walk.tree.dirs \cup {<<>>} THEN 1 ELSE 0)
             /\ walk.state = "resolved" =>
                  /\ p \in walk.tree.files => Issued("rm", p) = 1
                  /\ p \in walk.tree.dirs \cup {<<>>} => Issued("rmdir", p) = 1
        /\ \A i \in 1..Len(walk.issued) :
             /\ walk.issued[i].path \in TreePaths \cup {<<>>}
             /\ \A k \in 1..Len(walk.issued[i].path) :
                  walk.issued[i].path[k] \notin {".", ".."}
             /\ walk.issued[i].op = "rmdir" =>
                  \A c \in walk.tree.dirs \cup walk.tree.files :
                    Parent(c) = walk.issued[i].path => RemovedBefore(c, i))

\* rmdir resolved on a tree with a file and a directory at the top, the
\* directory holding a file and an empty directory.
C39_Witness ==
  /\ walk.state = "resolved"
  /\ walk.tree.files = {<<"a">>, <<"b", "a">>}
  /\ walk.tree.dirs = {<<"b">>, <<"b", "b">>}
  /\ Len(walk.issued) = 8

====
